---- MODULE Spec2Model ----
(***************************************************************************)
(* SprintTogether backend: the task and sprint services, the Redis cache   *)
(* of paginated listings and the WebSocket gateway that relays mutations   *)
(* to every connected client.                                              *)
(*                                                                         *)
(* Storage (Prisma/PostgreSQL) is the pair of tables sprints and tasks;    *)
(* the cache (Redis) is the record cache; the gateway's outbound traffic   *)
(* for the request being handled is the sequence outbox.                   *)
(***************************************************************************)
EXTENDS Integers, Sequences, FiniteSets, TLC

(***************************************************************************)
(* Bounds of the model.                                                    *)
(***************************************************************************)
MaxSprints == 2
MaxTasks == 3
MaxConns == 2
\* The tasks created where the listing and the gateway's traffic are explored.
MaxFlat == 2

SprintIds == 1..MaxSprints
TaskIds == 1..MaxTasks
ConnIds == 1..MaxConns
\* The User table is never written by the services modelled here.
UserIds == {1, 2}
\* The ids a request may name as a user: the stored ones and one that is not.
UserRefs == {1, 2, 3}

\* null (and the empty string, which the services normalise to null).
Null == 0

Statuses == {"OPEN", "IN_PROGRESS", "COMPLETED"}
\* Stands for any payload value that is not a string.
NotAString == "<non-string>"
\* parseInt(data.limit) || 5
DefaultLimit == 5
\* limit < 1 || limit > 100
MaxLimit == 100

VARIABLES
  sprints,     \* Sprint table: id -> row
  tasks,       \* Task table: id -> row
  nextSprint,  \* ids are never reused: the next Sprint id
  nextTask,    \* the next Task id
  cache,       \* Redis keys of the listing caches
  redisUp,     \* whether Redis answers; when FALSE every command rejects
  sockets,     \* server.sockets.sockets: the connections now open
  outbox,      \* what the gateway emitted for the request being handled
  pending,     \* the service call that has emitted its event and not returned yet
  registry,    \* Redis keys of the presence registry and the stored tokens
  timers,      \* sockets a token sweep has armed its setTimeout for
  lapsed,      \* sockets whose handshake token has passed its expiry
  renewed,     \* sockets whose client got a new jwt from POST /auth/refresh
  calls        \* service calls of concurrent requests that are between two awaits

\* What only the connection handlers and the sweeps write.
hubVars == <<registry, timers, lapsed, renewed, calls>>

vars == <<sprints, tasks, nextSprint, nextTask, cache, redisUp, sockets, outbox, pending,
          registry, timers, lapsed, renewed, calls>>

(***************************************************************************)
(* Helpers.                                                                *)
(***************************************************************************)
Min(a, b) == IF a < b THEN a ELSE b
Max(a, b) == IF a > b THEN a ELSE b

\* The elements of a finite set of integers in ascending order (orderBy id asc).
SortedSeq(S) ==
  [i \in 1..Cardinality(S) |-> CHOOSE x \in S : Cardinality({y \in S : y < x}) = i - 1]

\* f without key k.
Without(f, K) == [k \in DOMAIN f \ K |-> f[k]]

(***************************************************************************)
(* PersistenceGateway: the Prisma calls the services make.                 *)
(***************************************************************************)
\* assigneeName: user?.name || null
UserName(u) == IF u \in UserIds THEN "user" ELSE "null"

\* prisma.task.create: status and hasChildren take the column defaults.
TaskRow(in) ==
  [sprintId |-> in.sprintId, parentId |-> in.parentId, assignedTo |-> in.assignedTo,
   status |-> "OPEN", title |-> in.title, description |-> in.description,
   hours |-> in.hours, hasChildren |-> FALSE]

\* prisma.task.delete: Task_parentId_fkey is ON DELETE SET NULL, so the rows
\* that named the deleted row as parent stay, with parentId null.
TaskDeleteRow(tk, id) ==
  [t \in DOMAIN tk \ {id} |->
     IF tk[t].parentId = id THEN [tk[t] EXCEPT !.parentId = Null] ELSE tk[t]]

\* prisma.task.count({ where: { parentId } })
CountChildren(tk, pid) == Cardinality({t \in DOMAIN tk : tk[t].parentId = pid})

\* prisma.task.count({ where: { sprintId } })
CountInSprint(tk, s) == Cardinality({t \in DOMAIN tk : tk[t].sprintId = s})

\* prisma.task.findMany({ where: { sprintId, parentId: null }, orderBy: { id: 'asc' } })
ParentTaskIds(tk, s) ==
  SortedSeq({t \in DOMAIN tk : tk[t].sprintId = s /\ tk[t].parentId = Null})

\* prisma.task.findMany({ where: { parentId }, orderBy: { id: 'asc' } })
ChildTaskIds(tk, pid) == SortedSeq({t \in DOMAIN tk : tk[t].parentId = pid})

(***************************************************************************)
(* CacheStore: the Redis keys of the listing caches.                       *)
(*   page[<<s, index, limit, forward>>]  tasks:sprint:s:index:..:limit:..  *)
(*   count[s]                            tasks:sprint:s:count              *)
(*   cpage[<<t, index, limit, forward>>] children:task:t:index:..          *)
(*   ccount[t]                           children:task:t:count             *)
(*   all                                 sprints:all (<<>> when absent)    *)
(***************************************************************************)
EmptyCache ==
  [page |-> <<>>, count |-> <<>>, cpage |-> <<>>, ccount |-> <<>>, all |-> <<>>]

\* delByPattern('tasks:sprint:<s>:*'), delByPattern('tasks:*:<s>:*'); both
\* swallow a Redis failure and return 0.
invalidateSprintCache(ch, up, s) ==
  IF ~up THEN ch
  ELSE [ch EXCEPT !.page = Without(@, {k \in DOMAIN @ : k[1] = s}),
                  !.count = Without(@, {s})]

\* delByPattern('children:task:<t>:*')
invalidateTaskChildrenCache(ch, up, t) ==
  IF ~up THEN ch
  ELSE [ch EXCEPT !.cpage = Without(@, {k \in DOMAIN @ : k[1] = t}),
                  !.ccount = Without(@, {t})]

(***************************************************************************)
(* A service call returns the tables and the cache as it left them and     *)
(* err: "" when it returned, the exception's message when it threw.  What  *)
(* was written before a throw stays written: nothing runs in a transaction.*)
(***************************************************************************)
Ret(sp, tk, ch, err) == [sp |-> sp, tk |-> tk, ch |-> ch, err |-> err]

RedisError == "Redis connection error"

(***************************************************************************)
(* SprintService                                                           *)
(***************************************************************************)
\* prisma.sprint.findMany({ orderBy: { createdAt: 'desc' } }): ids are handed
\* out in creation order.
SprintListing(sp) ==
  LET ids == SortedSeq(DOMAIN sp)
      n == Len(ids)
  IN [i \in 1..n |->
        [id |-> ids[n + 1 - i], name |-> sp[ids[n + 1 - i]].name,
         description |-> sp[ids[n + 1 - i]].description,
         status |-> sp[ids[n + 1 - i]].status,
         hasChildren |-> sp[ids[n + 1 - i]].hasChildren]]

\* SprintService.getAll: the cached listing when there is one, else the table,
\* which is then cached.  Returns the listing in field val.
SprintGetAll(sp, ch, up) ==
  IF ~up THEN [ch |-> ch, err |-> RedisError, val |-> <<>>]
  ELSE IF ch.all # <<>> THEN [ch |-> ch, err |-> "", val |-> ch.all[1]]
  ELSE [ch |-> [ch EXCEPT !.all = <<SprintListing(sp)>>], err |-> "",
        val |-> SprintListing(sp)]

\* A sprint write that leaves sprints:all as it is.
SprintWriteKeepingCache(sp, tk, ch, up, id, field, value) ==
  IF id \notin DOMAIN sp THEN Ret(sp, tk, ch, "Record to update not found")
  ELSE Ret([sp EXCEPT ![id][field] = value], tk, ch, "")

\* A sprint write followed by SprintService.invalidateCache (redis.del of
\* sprints:all, which rejects when Redis is down).
SprintWrite(sp, tk, ch, up, id, field, value) ==
  IF id \notin DOMAIN sp THEN Ret(sp, tk, ch, "Record to update not found")
  ELSE LET sp1 == [sp EXCEPT ![id][field] = value]
       IN IF ~up THEN Ret(sp1, tk, ch, RedisError)
          ELSE Ret(sp1, tk, [ch EXCEPT !.all = <<>>], "")

updateSprintHasChildren(sp, tk, ch, up, id, flag) ==
  SprintWrite(sp, tk, ch, up, id, "hasChildren", flag)

updateSprintStatus(sp, tk, ch, up, id, status) ==
  SprintWrite(sp, tk, ch, up, id, "status", status)

updateSprintDescription(sp, tk, ch, up, id, description) ==
  SprintWrite(sp, tk, ch, up, id, "description", description)

updateSprintName(sp, tk, ch, up, id, name) ==
  SprintWrite(sp, tk, ch, up, id, "name", name)

\* SprintService.create
SprintCreate(sp, tk, ch, up, id, name) ==
  LET sp1 == sp @@ (id :> [name |-> name, description |-> "", status |-> "OPEN",
                            hasChildren |-> FALSE])
  IN IF ~up THEN Ret(sp1, tk, ch, RedisError)
     ELSE Ret(sp1, tk, [ch EXCEPT !.all = <<>>], "")

\* SprintService.deleteSprint: task.deleteMany({ where: { sprintId } }), then
\* sprint.delete, then invalidateCache.  A task of another sprint whose parent
\* was in the deleted sprint keeps its row, with parentId null.
deleteSprint(sp, tk, ch, up, id) ==
  IF id \notin DOMAIN sp THEN Ret(sp, tk, ch, "Sprint not found")
  ELSE LET gone == {t \in DOMAIN tk : tk[t].sprintId = id}
           tk1 == [t \in DOMAIN tk \ gone |->
                     IF tk[t].parentId \in gone
                       THEN [tk[t] EXCEPT !.parentId = Null] ELSE tk[t]]
           sp1 == Without(sp, {id})
       IN IF ~up THEN Ret(sp1, tk1, ch, RedisError)
          ELSE Ret(sp1, tk1, [ch EXCEPT !.all = <<>>], "")

(***************************************************************************)
(* TaskService                                                             *)
(***************************************************************************)
\* What eventEmitter.emit hands to the gateway's @OnEvent listener.
TaskEvent(sprintId, taskId, action) ==
  [sprintId |-> sprintId, taskId |-> taskId, action |-> action]

\* createTask without the three lookups before task.create.
createTaskEmitUnvalidated(sp, tk, ch, up, id, in) ==
  LET tk1 == tk @@ (id :> TaskRow(in))
      tk2 == IF in.parentId \in DOMAIN tk
               THEN [tk1 EXCEPT ![in.parentId].hasChildren = TRUE] ELSE tk1
      ch1 == IF in.parentId # Null
               THEN invalidateTaskChildrenCache(ch, up, in.parentId) ELSE ch
  IN updateSprintHasChildren(sp, tk2, ch1, up, in.sprintId, TRUE)

\* TaskService.createTask up to and including eventEmitter.emit('task.created').
\* in.parentId and in.assignedTo are Null for '', null and undefined.  The
\* writes after task.create run inside the try block, whose catch rethrows.
createTaskEmit(sp, tk, ch, up, id, in) ==
  IF in.sprintId \notin DOMAIN sp
    THEN Ret(sp, tk, ch, "Invalid sprintId: sprint not found")
  ELSE IF in.parentId # Null /\ in.parentId \notin DOMAIN tk
    THEN Ret(sp, tk, ch, "Invalid parentId: parent task not found")
  ELSE IF in.assignedTo # Null /\ in.assignedTo \notin UserIds
    THEN Ret(sp, tk, ch, "Invalid assignedTo: user not found")
  ELSE
    LET tk1 == tk @@ (id :> TaskRow(in))
        tk2 == IF in.parentId # Null
                 THEN [tk1 EXCEPT ![in.parentId].hasChildren = TRUE] ELSE tk1
        ch1 == IF in.parentId # Null
                 THEN invalidateTaskChildrenCache(ch, up, in.parentId) ELSE ch
    IN updateSprintHasChildren(sp, tk2, ch1, up, in.sprintId, TRUE)

\* The rest of createTask: invalidateSprintCache(newTask.sprintId), return.
createTaskReturn(ch, up, sprintId) == invalidateSprintCache(ch, up, sprintId)

\* TaskService.updateTask up to and including emit('task.updated').  in.has is
\* the set of fields the body gives; '' for parentId and assignedTo is Null.
updateTaskEmit(sp, tk, ch, up, in) ==
  IF in.id \notin DOMAIN tk THEN Ret(sp, tk, ch, "Task not found")
  ELSE IF "sprintId" \in in.has /\ in.sprintId \notin DOMAIN sp
    THEN Ret(sp, tk, ch, "Invalid sprintId: sprint not found")
  ELSE IF "parentId" \in in.has /\ in.parentId # Null /\ in.parentId \notin DOMAIN tk
    THEN Ret(sp, tk, ch, "Invalid parentId: parent task not found")
  ELSE IF "assignedTo" \in in.has /\ in.assignedTo # Null /\ in.assignedTo \notin UserIds
    THEN Ret(sp, tk, ch, "Invalid assignedTo: user not found")
  ELSE
    LET old == tk[in.id]
        new == [old EXCEPT
                  !.title = IF "title" \in in.has THEN in.title ELSE @,
                  !.sprintId = IF "sprintId" \in in.has THEN in.sprintId ELSE @,
                  !.parentId = IF "parentId" \in in.has THEN in.parentId ELSE @,
                  !.assignedTo = IF "assignedTo" \in in.has THEN in.assignedTo ELSE @]
    IN Ret(sp, [tk EXCEPT ![in.id] = new], ch, "")

\* The rest of updateTask: invalidateSprintCache(updatedTask.sprintId), return.
updateTaskReturn(ch, up, sprintId) == invalidateSprintCache(ch, up, sprintId)

\* TaskService.deleteTaskChildrenRecursively.  The direct children are read
\* once, with their hasChildren flags; then, for each, its children are
\* deleted if its flag is set and the child itself is deleted.  st is "ok",
\* "throw" (task.delete of a row that is gone) or "diverge": a chain of
\* flagged tasks longer than the table means a parentId cycle, on which the
\* recursion never returns.  log lists the ids in the order of the
\* task.delete calls that succeeded.
RECURSIVE deleteTaskChildrenRecursively(_, _, _)
RECURSIVE deleteEachChild(_, _, _)
deleteTaskChildrenRecursively(tk, parentId, fuel) ==
  IF fuel = 0 THEN [tk |-> tk, st |-> "diverge", log |-> <<>>]
  ELSE LET ids == ChildTaskIds(tk, parentId)
           children == [i \in 1..Len(ids) |->
                          [id |-> ids[i], hasChildren |-> tk[ids[i]].hasChildren]]
       IN deleteEachChild(tk, children, fuel)

deleteEachChild(tk, children, fuel) ==
  IF children = <<>> THEN [tk |-> tk, st |-> "ok", log |-> <<>>]
  ELSE LET child == Head(children)
           r == IF child.hasChildren
                  THEN deleteTaskChildrenRecursively(tk, child.id, fuel - 1)
                  ELSE [tk |-> tk, st |-> "ok", log |-> <<>>]
       IN IF r.st # "ok" THEN r
          ELSE IF child.id \notin DOMAIN r.tk
            THEN [tk |-> r.tk, st |-> "throw", log |-> r.log]
          ELSE LET rest == deleteEachChild(TaskDeleteRow(r.tk, child.id),
                                           Tail(children), fuel)
               IN [rest EXCEPT !.log = r.log \o <<child.id>> \o @]

\* Whether deleteTask(id) never returns.
deleteTaskDiverges(tk, id) ==
  /\ id \in DOMAIN tk
  /\ tk[id].hasChildren
  /\ deleteTaskChildrenRecursively(tk, id, Cardinality(DOMAIN tk) + 1).st = "diverge"

\* TaskService.deleteTask up to and including emit('task.deleted').  task is
\* the row as read at the start: its parentId, sprintId and hasChildren.
deleteTaskEmit(sp, tk, ch, up, id) ==
  IF id \notin DOMAIN tk THEN Ret(sp, tk, ch, "Task not found")
  ELSE
    LET task == tk[id]
        r == IF task.hasChildren
               THEN deleteTaskChildrenRecursively(tk, id, Cardinality(DOMAIN tk) + 1)
               ELSE [tk |-> tk, st |-> "ok", log |-> <<>>]
    IN IF r.st # "ok" \/ id \notin DOMAIN r.tk
         THEN Ret(sp, r.tk, ch, "Record to delete does not exist")
       ELSE
         LET tk1 == TaskDeleteRow(r.tk, id)
             last == task.parentId # Null /\ CountChildren(tk1, task.parentId) = 0
             ch1 == IF task.parentId # Null
                      THEN invalidateTaskChildrenCache(ch, up, task.parentId) ELSE ch
             ch2 == IF task.hasChildren
                      THEN invalidateTaskChildrenCache(ch1, up, id) ELSE ch1
         IN IF last /\ task.parentId \notin DOMAIN tk1
              THEN Ret(sp, tk1, ch, "Record to update not found")
            ELSE IF last
              THEN Ret(sp, [tk1 EXCEPT ![task.parentId].hasChildren = FALSE], ch2, "")
            ELSE Ret(sp, tk1, ch2, "")

\* The rest of deleteTask: the sprint's remaining tasks are counted, its
\* hasChildren is cleared when there are none, the sprint's cache is dropped.
deleteTaskReturn(sp, tk, ch, up, sprintId) ==
  LET r == IF CountInSprint(tk, sprintId) = 0
             THEN updateSprintHasChildren(sp, tk, ch, up, sprintId, FALSE)
             ELSE Ret(sp, tk, ch, "")
  IN IF r.err # "" THEN r
     ELSE Ret(r.sp, r.tk, invalidateSprintCache(r.ch, up, sprintId), "")

\* TaskService.updateTaskStatus.  updated is the flag of the returned object.
updateTaskStatus(sp, tk, ch, up, taskId, newStatus) ==
  IF taskId \notin DOMAIN tk
    THEN Ret(sp, tk, ch, "Task not found") @@ [updated |-> FALSE]
  ELSE IF tk[taskId].status = newStatus
    THEN Ret(sp, tk, ch, "") @@ [updated |-> FALSE]
  ELSE Ret(sp, [tk EXCEPT ![taskId].status = newStatus],
           invalidateSprintCache(ch, up, tk[taskId].sprintId), "")
         @@ [updated |-> TRUE]

\* TaskService.updateTaskDescription
updateTaskDescription(sp, tk, ch, up, taskId, description) ==
  IF taskId \notin DOMAIN tk
    THEN Ret(sp, tk, ch, "Task not found") @@ [updated |-> FALSE]
  ELSE Ret(sp, [tk EXCEPT ![taskId].description = description],
           invalidateSprintCache(ch, up, tk[taskId].sprintId), "")
         @@ [updated |-> TRUE]

\* updateTaskName dropping the first sprint's cache before it looks the task up.
updateTaskNameInvalidatingFirst(sp, tk, ch, up, taskId, name) ==
  IF taskId \notin DOMAIN tk
    THEN Ret(sp, tk, invalidateSprintCache(ch, up, 1), "Task not found")
           @@ [updated |-> FALSE]
  ELSE Ret(sp, [tk EXCEPT ![taskId].title = name],
           invalidateSprintCache(ch, up, tk[taskId].sprintId), "")
         @@ [updated |-> TRUE]

\* TaskService.updateTaskName
updateTaskName(sp, tk, ch, up, taskId, name) ==
  IF taskId \notin DOMAIN tk
    THEN Ret(sp, tk, ch, "Task not found") @@ [updated |-> FALSE]
  ELSE Ret(sp, [tk EXCEPT ![taskId].title = name],
           invalidateSprintCache(ch, up, tk[taskId].sprintId), "")
         @@ [updated |-> TRUE]

(***************************************************************************)
(* Paginated reads                                                         *)
(***************************************************************************)
\* addAssigneeNameToTasks over the rows findMany returned.
TaskRows(tk, ids) ==
  [i \in 1..Len(ids) |->
     [id |-> ids[i], sprintId |-> tk[ids[i]].sprintId, parentId |-> tk[ids[i]].parentId,
      assignedTo |-> tk[ids[i]].assignedTo, status |-> tk[ids[i]].status,
      title |-> tk[ids[i]].title, description |-> tk[ids[i]].description,
      hours |-> tk[ids[i]].hours, hasChildren |-> tk[ids[i]].hasChildren,
      assigneeName |-> UserName(tk[ids[i]].assignedTo)]]

\* The inclusive window [startIndex, endIndex] of a page, for total >= 1.
PageWindow(index, limit, isForward, total) ==
  LET s0 == IF isForward THEN index ELSE Max(0, index - limit + 1)
      e0 == IF isForward THEN Min(index + limit - 1, total - 1) ELSE index
  IN [startIndex |-> Max(0, Min(s0, total - 1)),
      endIndex |-> Max(0, Min(e0, total - 1))]

\* The result object of a paginated read over the ordered ids all (what
\* findMany would return without skip and take), with the given total.
PageResult(tk, all, index, limit, isForward, total) ==
  IF total = 0
    THEN [tasks |-> <<>>, total |-> 0, currentIndex |-> 0, hasNext |-> FALSE,
          hasPrev |-> FALSE, startIndex |-> 0, endIndex |-> 0]
  ELSE LET w == PageWindow(index, limit, isForward, total)
       IN [tasks |-> TaskRows(tk, SubSeq(all, w.startIndex + 1,
                                         Min(w.endIndex + 1, Len(all)))),
           total |-> total,
           currentIndex |-> IF isForward THEN w.startIndex ELSE w.endIndex,
           hasNext |-> w.endIndex < total - 1,
           hasPrev |-> w.startIndex > 0,
           startIndex |-> w.startIndex, endIndex |-> w.endIndex]

\* The service's own argument checks, made before any cache call.
PageArgsError(index, limit) ==
  IF index < 0 THEN "index must be non-negative"
  ELSE IF limit < 1 \/ limit > MaxLimit THEN "limit must be between 1 and 100"
  ELSE ""

\* TaskService.getCachedTaskCount: the cached count, else the count of the
\* sprint's parent tasks, which is then cached.
getCachedTaskCount(tk, ch, sprintId) ==
  IF sprintId \in DOMAIN ch.count
    THEN [ch |-> ch, val |-> ch.count[sprintId]]
  ELSE LET total == Len(ParentTaskIds(tk, sprintId))
       IN [ch |-> [ch EXCEPT !.count = @ @@ (sprintId :> total)], val |-> total]

\* TaskService.getAllTasksBySprintWithIndex
getAllTasksBySprintWithIndex(tk, ch, up, sprintId, index, limit, isForward) ==
  LET key == <<sprintId, index, limit, isForward>> IN
  IF PageArgsError(index, limit) # ""
    THEN [ch |-> ch, err |-> PageArgsError(index, limit), val |-> <<>>]
  ELSE IF ~up THEN [ch |-> ch, err |-> RedisError, val |-> <<>>]
  ELSE IF key \in DOMAIN ch.page THEN [ch |-> ch, err |-> "", val |-> <<ch.page[key]>>]
  ELSE LET c == getCachedTaskCount(tk, ch, sprintId)
           res == PageResult(tk, ParentTaskIds(tk, sprintId), index, limit,
                             isForward, c.val)
       IN [ch |-> [c.ch EXCEPT !.page = @ @@ (key :> res)], err |-> "",
           val |-> <<res>>]

\* TaskService.getCachedChildrenCount
getCachedChildrenCount(tk, ch, taskId) ==
  IF taskId \in DOMAIN ch.ccount
    THEN [ch |-> ch, val |-> ch.ccount[taskId]]
  ELSE LET total == Len(ChildTaskIds(tk, taskId))
       IN [ch |-> [ch EXCEPT !.ccount = @ @@ (taskId :> total)], val |-> total]

\* TaskService.getTaskChildrenWithIndex: the task is looked up before the cache.
getTaskChildrenWithIndex(tk, ch, up, taskId, index, limit, isForward) ==
  LET key == <<taskId, index, limit, isForward>> IN
  IF PageArgsError(index, limit) # ""
    THEN [ch |-> ch, err |-> PageArgsError(index, limit), val |-> <<>>]
  ELSE IF taskId \notin DOMAIN tk THEN [ch |-> ch, err |-> "Task not found", val |-> <<>>]
  ELSE IF ~up THEN [ch |-> ch, err |-> RedisError, val |-> <<>>]
  ELSE IF key \in DOMAIN ch.cpage THEN [ch |-> ch, err |-> "", val |-> <<ch.cpage[key]>>]
  ELSE LET c == getCachedChildrenCount(tk, ch, taskId)
           res == PageResult(tk, ChildTaskIds(tk, taskId), index, limit,
                             isForward, c.val)
       IN [ch |-> [c.ch EXCEPT !.cpage = @ @@ (key :> res)], err |-> "",
           val |-> <<res>>]

(***************************************************************************)
(* WsGateway: what a handler emits.  client.emit reaches the requester if  *)
(* its socket is still open; server.emit reaches every open socket.        *)
(***************************************************************************)
ToClient(c, event, payload) ==
  [to |-> {c} \cap sockets, event |-> event, kind |-> "reply", payload |-> payload]

ToClientError(c, event, message) ==
  [to |-> {c} \cap sockets, event |-> event, kind |-> "error",
   payload |-> [error |-> message]]

ToAll(event, payload) ==
  [to |-> sockets, event |-> event, kind |-> "broadcast", payload |-> payload]

\* A listener that emits the refresh to no socket at all: what task:refresh
\* would be if the gateway's server had no client attached to it.
handleTaskEventUnheard(ev) ==
  [to |-> {}, event |-> "task:refresh", kind |-> "broadcast",
   payload |-> [sprintId |-> ev.sprintId, taskId |-> ev.taskId, action |-> ev.action]]

\* handleTaskCreated, handleTaskUpdated, handleTaskDeleted: the listener runs
\* inside eventEmitter.emit and calls server.emit at once.
handleTaskEvent(ev) ==
  ToAll("task:refresh", [sprintId |-> ev.sprintId, taskId |-> ev.taskId,
                         action |-> ev.action])

\* parseInt(x) || d, for an integer x.
ParseIntOr(x, d) == IF x = 0 THEN d ELSE x

NoPending == <<>>

\* The requests whose service calls are followed await by await, and a
\* request that has no call running.
Callers == {"a", "b"}
Idle == [op |-> "idle"]
NoCalls == [k \in Callers |-> Idle]

\* A stored row with its id, as Prisma returns it.
WithId(tk, id) == [id |-> id] @@ tk[id]

(***************************************************************************)
(* Task requests                                                           *)
(***************************************************************************)
\* handleCreateTask, through createTask's emit of task.created.
HandleCreateTask(c, data) ==
  /\ c \in sockets /\ pending = NoPending
  /\ IF data.title = "" \/ data.title = NotAString
       THEN /\ outbox' = <<ToClientError(c, "task:create",
                             "title is required and must be a non-empty string")>>
            /\ UNCHANGED <<sprints, tasks, nextTask, cache, pending>>
     ELSE IF data.hours <= 0
       THEN /\ outbox' = <<ToClientError(c, "task:create",
                             "hours is required and must be a positive number")>>
            /\ UNCHANGED <<sprints, tasks, nextTask, cache, pending>>
     ELSE IF data.sprintId = Null
       THEN /\ outbox' = <<ToClientError(c, "task:create",
                             "sprintId is required and must be a non-empty string")>>
            /\ UNCHANGED <<sprints, tasks, nextTask, cache, pending>>
     ELSE
       /\ nextTask <= MaxTasks
       /\ LET r == createTaskEmit(sprints, tasks, cache, redisUp, nextTask, data)
          IN /\ sprints' = r.sp /\ tasks' = r.tk /\ cache' = r.ch
             /\ nextTask' = IF nextTask \in DOMAIN r.tk THEN nextTask + 1 ELSE nextTask
             /\ IF r.err # ""
                  THEN /\ outbox' = <<ToClientError(c, "task:create", r.err)>>
                       /\ pending' = NoPending
                  ELSE /\ outbox' = <<handleTaskEvent(
                                        TaskEvent(data.sprintId, nextTask, "created"))>>
                       /\ pending' = <<[op |-> "create", conn |-> c,
                                        sprintId |-> data.sprintId, taskId |-> nextTask]>>
  /\ UNCHANGED <<nextSprint, redisUp, sockets, hubVars>>

\* createTask returns to handleCreateTask, which replies to the requester.
ReturnCreateTask ==
  /\ pending # NoPending /\ pending[1].op = "create"
  /\ cache' = createTaskReturn(cache, redisUp, pending[1].sprintId)
  /\ outbox' = Append(outbox, ToClient(pending[1].conn, "task:create",
                                       [result |-> WithId(tasks, pending[1].taskId)]))
  /\ pending' = NoPending
  /\ UNCHANGED <<sprints, tasks, nextSprint, nextTask, redisUp, sockets, hubVars>>

\* The common start of task:request_delete and DELETE /task/delete: deleteTask
\* through its emit of task.deleted.  conn is Null for the REST call.
StartDeleteTask(conn, event, taskId) ==
  /\ ~deleteTaskDiverges(tasks, taskId)
  /\ LET r == deleteTaskEmit(sprints, tasks, cache, redisUp, taskId)
     IN /\ sprints' = r.sp /\ tasks' = r.tk /\ cache' = r.ch
        /\ IF r.err # ""
             THEN /\ outbox' = IF conn = Null THEN <<>>
                               ELSE <<ToClientError(conn, event, r.err)>>
                  /\ pending' = NoPending
             ELSE /\ outbox' = <<handleTaskEvent(
                                   TaskEvent(tasks[taskId].sprintId, taskId, "deleted"))>>
                  /\ pending' = <<[op |-> "delete", conn |-> conn,
                                   sprintId |-> tasks[taskId].sprintId,
                                   taskId |-> taskId]>>

\* handleRequestDeleteTask
HandleRequestDeleteTask(c, taskId) ==
  /\ c \in sockets /\ pending = NoPending
  /\ IF taskId = Null
       THEN /\ outbox' = <<ToClientError(c, "task:request_delete",
                             "taskId is required and must be a non-empty string")>>
            /\ UNCHANGED <<sprints, tasks, cache, pending>>
     ELSE StartDeleteTask(c, "task:request_delete", taskId)
  /\ UNCHANGED <<nextSprint, nextTask, redisUp, sockets, hubVars>>

\* TaskController.delete
ControllerDelete(taskId) ==
  /\ pending = NoPending
  /\ StartDeleteTask(Null, "", taskId)
  /\ UNCHANGED <<nextSprint, nextTask, redisUp, sockets, hubVars>>

\* deleteTask returns (or throws) to its caller.  The gateway replies and
\* emits task:deleted; the controller answers over HTTP.
ReturnDeleteTask ==
  /\ pending # NoPending /\ pending[1].op = "delete"
  /\ LET p == pending[1]
         r == deleteTaskReturn(sprints, tasks, cache, redisUp, p.sprintId)
     IN /\ sprints' = r.sp /\ tasks' = r.tk /\ cache' = r.ch
        /\ outbox' =
             IF p.conn = Null THEN outbox
             ELSE IF r.err # ""
               THEN Append(outbox, ToClientError(p.conn, "task:request_delete", r.err))
             ELSE outbox \o
                  <<ToClient(p.conn, "task:request_delete",
                             [taskId |-> p.taskId,
                              result |-> [id |-> p.taskId, deleted |-> TRUE,
                                          sprintId |-> p.sprintId]]),
                    ToAll("task:deleted", [taskId |-> p.taskId,
                                           sprintId |-> p.sprintId])>>
  /\ pending' = NoPending
  /\ UNCHANGED <<nextSprint, nextTask, redisUp, sockets, hubVars>>

\* TaskController.update, through updateTask's emit of task.updated.
ControllerUpdate(body) ==
  /\ pending = NoPending
  /\ LET r == updateTaskEmit(sprints, tasks, cache, redisUp, body)
     IN /\ sprints' = r.sp /\ tasks' = r.tk /\ cache' = r.ch
        /\ IF r.err # ""
             THEN outbox' = <<>> /\ pending' = NoPending
             ELSE /\ outbox' = <<handleTaskEvent(
                                   TaskEvent(r.tk[body.id].sprintId, body.id, "updated"))>>
                  /\ pending' = <<[op |-> "update", conn |-> Null,
                                   sprintId |-> r.tk[body.id].sprintId,
                                   taskId |-> body.id]>>
  /\ UNCHANGED <<nextSprint, nextTask, redisUp, sockets, hubVars>>

\* updateTask returns to the controller.
ReturnUpdateTask ==
  /\ pending # NoPending /\ pending[1].op = "update"
  /\ cache' = updateTaskReturn(cache, redisUp, pending[1].sprintId)
  /\ pending' = NoPending
  /\ UNCHANGED <<sprints, tasks, nextSprint, nextTask, redisUp, sockets, outbox, hubVars>>

\* An atomic handler: the tables and cache a service call left, and what the
\* handler emitted.
Handled(r, out) ==
  /\ sprints' = r.sp /\ tasks' = r.tk /\ cache' = r.ch
  /\ outbox' = out
  /\ UNCHANGED <<nextTask, redisUp, sockets, pending, hubVars>>

\* A request refused by the handler's own validation.
Refused(c, event, message) ==
  /\ outbox' = <<ToClientError(c, event, message)>>
  /\ UNCHANGED <<sprints, tasks, cache, nextTask, redisUp, sockets, pending, hubVars>>

\* handleSetTaskStatus: the reply and the refresh follow every return of
\* updateTaskStatus, whose result carries sprintId whether or not it wrote.
HandleSetTaskStatus(c, id, status) ==
  /\ c \in sockets /\ pending = NoPending
  /\ IF id = Null
       THEN Refused(c, "task:set_status",
                    "taskId is required and must be a non-empty string")
     ELSE IF status \notin Statuses
       THEN Refused(c, "task:set_status",
                    "status is required and must be one of: OPEN, IN_PROGRESS, COMPLETED")
     ELSE LET r == updateTaskStatus(sprints, tasks, cache, redisUp, id, status)
          IN IF r.err # ""
               THEN Handled(r, <<ToClientError(c, "task:set_status", r.err)>>)
             ELSE Handled(r,
                    <<ToClient(c, "task:set_status",
                               [id |-> id,
                                result |-> [id |-> id, status |-> r.tk[id].status,
                                            sprintId |-> r.tk[id].sprintId,
                                            updated |-> r.updated]]),
                      ToAll("task:refresh",
                            [sprintId |-> r.tk[id].sprintId, taskId |-> id,
                             action |-> "status_updated",
                             new_status |-> r.tk[id].status])>>)
  /\ UNCHANGED nextSprint

\* handleChangeTaskDescription: no reply on success, only the refresh.
HandleChangeTaskDescription(c, id, description) ==
  /\ c \in sockets /\ pending = NoPending
  /\ IF id = Null
       THEN Refused(c, "task:change_description",
                    "id is required and must be a non-empty string")
     ELSE IF description = NotAString
       THEN Refused(c, "task:change_description",
                    "description is required and must be a string")
     ELSE LET r == updateTaskDescription(sprints, tasks, cache, redisUp, id, description)
          IN IF r.err # ""
               THEN Handled(r, <<ToClientError(c, "task:change_description", r.err)>>)
             ELSE Handled(r,
                    <<ToAll("task:refresh",
                            [sprintId |-> r.tk[id].sprintId, taskId |-> id,
                             action |-> "description_updated",
                             new_description |-> description])>>)
  /\ UNCHANGED nextSprint

\* handleChangeTaskName: no reply on success, only the refresh.
HandleChangeTaskName(c, id, name) ==
  /\ c \in sockets /\ pending = NoPending
  /\ IF id = Null
       THEN Refused(c, "task:change_name",
                    "id is required and must be a non-empty string")
     ELSE IF name = NotAString
       THEN Refused(c, "task:change_name", "name is required and must be a string")
     ELSE LET r == updateTaskName(sprints, tasks, cache, redisUp, id, name)
          IN IF r.err # ""
               THEN Handled(r, <<ToClientError(c, "task:change_name", r.err)>>)
             ELSE Handled(r,
                    <<ToAll("task:refresh",
                            [sprintId |-> r.tk[id].sprintId, taskId |-> id,
                             action |-> "name_updated", new_name |-> name])>>)
  /\ UNCHANGED nextSprint

\* handleChangeTaskAssignee: the handler writes the row itself (task.update
\* throws for an unknown task and for an assignee that is no user), drops the
\* sprint's cache and emits the refresh; the reply is commented out.
HandleChangeTaskAssignee(c, taskId, assigneeId) ==
  /\ c \in sockets /\ pending = NoPending
  /\ IF taskId = Null
       THEN Refused(c, "task:change_assignee",
                    "taskId is required and must be a non-empty string")
     ELSE IF assigneeId = Null
       THEN Refused(c, "task:change_assignee",
                    "assigneeId is required and must be a non-empty string")
     ELSE IF taskId \notin DOMAIN tasks
       THEN Refused(c, "task:change_assignee", "Record to update not found")
     ELSE IF assigneeId \notin UserIds
       THEN Refused(c, "task:change_assignee", "Foreign key constraint failed")
     ELSE Handled(
            Ret(sprints, [tasks EXCEPT ![taskId].assignedTo = assigneeId],
                invalidateSprintCache(cache, redisUp, tasks[taskId].sprintId), ""),
            <<ToAll("task:refresh",
                    [sprintId |-> tasks[taskId].sprintId, taskId |-> taskId,
                     new_assignee |-> assigneeId,
                     new_assignee_name |-> UserName(assigneeId),
                     action |-> "assignee_updated"])>>)
  /\ UNCHANGED nextSprint

\* The pagination object of a page reply.
Pagination(res, limit) ==
  [total |-> res.total, currentIndex |-> res.currentIndex,
   startIndex |-> res.startIndex, endIndex |-> res.endIndex,
   hasNext |-> res.hasNext, hasPrev |-> res.hasPrev, limit |-> limit]

\* handleGetTasksByIndex.  isForward is a boolean here.
HandleGetTasksByIndex(c, sprintId, dataIndex, dataLimit, isForward) ==
  /\ c \in sockets /\ pending = NoPending
  /\ LET index == ParseIntOr(dataIndex, 0)
         limit == ParseIntOr(dataLimit, DefaultLimit)
     IN IF sprintId = Null
          THEN Refused(c, "task:get_by_index",
                       "sprintId is required and must be a non-empty string")
        ELSE IF index < 0
          THEN Refused(c, "task:get_by_index", "index must be non-negative")
        ELSE IF limit < 1 \/ limit > MaxLimit
          THEN Refused(c, "task:get_by_index", "limit must be between 1 and 100")
        ELSE LET r == getAllTasksBySprintWithIndex(tasks, cache, redisUp, sprintId,
                                                   index, limit, isForward)
             IN IF r.err # ""
                  THEN Handled(Ret(sprints, tasks, r.ch, r.err),
                               <<ToClientError(c, "task:get_by_index", r.err)>>)
                ELSE Handled(Ret(sprints, tasks, r.ch, ""),
                       <<ToClient(c, "task:get_by_index",
                                  [sprintId |-> sprintId, tasks |-> r.val[1].tasks,
                                   pagination |-> Pagination(r.val[1], limit)])>>)
  /\ UNCHANGED nextSprint

\* handleGetTaskChildrenByIndex
HandleGetTaskChildrenByIndex(c, taskId, dataIndex, dataLimit, isForward) ==
  /\ c \in sockets /\ pending = NoPending
  /\ LET index == ParseIntOr(dataIndex, 0)
         limit == ParseIntOr(dataLimit, DefaultLimit)
     IN IF taskId = Null
          THEN Refused(c, "task:get_children_by_index",
                       "taskId is required and must be a non-empty string")
        ELSE IF index < 0
          THEN Refused(c, "task:get_children_by_index", "index must be non-negative")
        ELSE IF limit < 1 \/ limit > MaxLimit
          THEN Refused(c, "task:get_children_by_index",
                       "limit must be between 1 and 100")
        ELSE LET r == getTaskChildrenWithIndex(tasks, cache, redisUp, taskId,
                                               index, limit, isForward)
             IN IF r.err # ""
                  THEN Handled(Ret(sprints, tasks, r.ch, r.err),
                               <<ToClientError(c, "task:get_children_by_index", r.err)>>)
                ELSE Handled(Ret(sprints, tasks, r.ch, ""),
                       <<ToClient(c, "task:get_children_by_index",
                                  [taskId |-> taskId, children |-> r.val[1].tasks,
                                   pagination |-> Pagination(r.val[1], limit)])>>)
  /\ UNCHANGED nextSprint

(***************************************************************************)
(* Sprint requests                                                         *)
(***************************************************************************)
\* A stored sprint with its id, as Prisma returns it.
SprintWithId(sp, id) == [id |-> id] @@ sp[id]

\* handleSetSprintStatus: the requester is answered; nothing goes to the others.
HandleSetSprintStatus(c, id, status) ==
  /\ c \in sockets /\ pending = NoPending
  /\ IF id = Null
       THEN Refused(c, "sprint:set_status",
                    "sprintId is required and must be a non-empty string")
     ELSE IF status \notin Statuses
       THEN Refused(c, "sprint:set_status",
                    "status is required and must be one of: OPEN, IN_PROGRESS, COMPLETED")
     ELSE LET r == updateSprintStatus(sprints, tasks, cache, redisUp, id, status)
          IN IF r.err # ""
               THEN Handled(r, <<ToClientError(c, "sprint:set_status", r.err)>>)
             ELSE Handled(r, <<ToClient(c, "sprint:set_status",
                                        [id |-> id, result |-> SprintWithId(r.sp, id)])>>)
  /\ UNCHANGED nextSprint

\* handleChangeSprintDescription: sprint:refresh to all, no reply.
HandleChangeSprintDescription(c, id, description) ==
  /\ c \in sockets /\ pending = NoPending
  /\ IF id = Null
       THEN Refused(c, "sprint:change_description",
                    "id is required and must be a non-empty string")
     ELSE IF description = NotAString
       THEN Refused(c, "sprint:change_description",
                    "description is required and must be a string")
     ELSE LET r == updateSprintDescription(sprints, tasks, cache, redisUp, id, description)
          IN IF r.err # ""
               THEN Handled(r, <<ToClientError(c, "sprint:change_description", r.err)>>)
             ELSE Handled(r, <<ToAll("sprint:refresh",
                                     [sprintId |-> id, action |-> "description_updated",
                                      new_description |-> description])>>)
  /\ UNCHANGED nextSprint

\* handleChangeSprintName: sprint:refresh to all, no reply.
HandleChangeSprintName(c, id, name) ==
  /\ c \in sockets /\ pending = NoPending
  /\ IF id = Null
       THEN Refused(c, "sprint:change_name",
                    "id is required and must be a non-empty string")
     ELSE IF name = NotAString
       THEN Refused(c, "sprint:change_name", "name is required and must be a string")
     ELSE LET r == updateSprintName(sprints, tasks, cache, redisUp, id, name)
          IN IF r.err # ""
               THEN Handled(r, <<ToClientError(c, "sprint:change_name", r.err)>>)
             ELSE Handled(r, <<ToAll("sprint:refresh",
                                     [sprintId |-> id, action |-> "name_updated",
                                      new_name |-> name])>>)
  /\ UNCHANGED nextSprint

\* The tail shared by handleCreateSprint and handleRequestDeleteSprint: after
\* the reply, sprintService.getAll() and server.emit('sprint:get_all', ...).
\* If getAll throws, the catch block sends an error on the same event.
ReplyThenListing(c, event, r, reply) ==
  LET g == SprintGetAll(r.sp, r.ch, redisUp)
  IN IF g.err # ""
       THEN Handled(r, <<reply, ToClientError(c, event, g.err)>>)
     ELSE Handled(Ret(r.sp, r.tk, g.ch, ""),
                  <<reply, ToAll("sprint:get_all", [sprints |-> g.val])>>)

\* handleCreateSprint
HandleCreateSprint(c, name) ==
  /\ c \in sockets /\ pending = NoPending
  /\ IF name = "" \/ name = NotAString
       THEN Refused(c, "sprint:create",
                    "name is required and must be a non-empty string")
            /\ UNCHANGED nextSprint
     ELSE /\ nextSprint <= MaxSprints
          /\ nextSprint' = nextSprint + 1
          /\ LET r == SprintCreate(sprints, tasks, cache, redisUp, nextSprint, name)
             IN IF r.err # ""
                  THEN Handled(r, <<ToClientError(c, "sprint:create", r.err)>>)
                ELSE ReplyThenListing(c, "sprint:create", r,
                       ToClient(c, "sprint:create",
                                [result |-> SprintWithId(r.sp, nextSprint)]))

\* handleRequestDeleteSprint
HandleRequestDeleteSprint(c, sprintId) ==
  /\ c \in sockets /\ pending = NoPending
  /\ IF sprintId = Null
       THEN Refused(c, "sprint:request_delete",
                    "sprintId is required and must be a non-empty string")
     ELSE LET r == deleteSprint(sprints, tasks, cache, redisUp, sprintId)
          IN IF r.err # ""
               THEN Handled(r, <<ToClientError(c, "sprint:request_delete", r.err)>>)
             ELSE ReplyThenListing(c, "sprint:request_delete", r,
                    ToClient(c, "sprint:request_delete",
                             [sprintId |-> sprintId,
                              result |-> [id |-> sprintId, deleted |-> TRUE]]))
  /\ UNCHANGED nextSprint

(***************************************************************************)
(* The presence registry: the Redis keys user:online_users (a set),        *)
(* user_presence:<user> (the user's row with its socketIds),               *)
(* socket_user:<socket> (the reverse mapping) and socket_token:<socket>.   *)
(***************************************************************************)
\* entry[u] = <<>> stands for no user_presence:<u> key: the gateway never
\* writes an empty socketIds list.  socketUser[c] and socketToken[c] hold the
\* userId, Null when the key does not exist.
EmptyRegistry ==
  [online |-> {},
   entry |-> [u \in UserIds |-> <<>>],
   socketUser |-> [c \in ConnIds |-> Null],
   socketToken |-> [c \in ConnIds |-> Null]]

Range(q) == {q[i] : i \in DOMAIN q}

\* The reverse mapping exists and the transport holds the socket, connected.
validateSocketConnection(rg, open, up, c) ==
  up /\ rg.socketUser[c] # Null /\ c \in open

\* The valid ids in their stored order; the reverse mapping of every other id
\* is deleted.
validateSocketIds(rg, open, up, ids) ==
  LET ok(c) == validateSocketConnection(rg, open, up, c)
  IN [valid |-> SelectSeq(ids, ok),
      rg |-> IF up
             THEN [rg EXCEPT !.socketUser =
                     [c \in ConnIds |-> IF c \in Range(ids) /\ ~ok(c) THEN Null ELSE @[c]]]
             ELSE rg]

\* srem(ONLINE_USERS_KEY, u) and del(user_presence:<u>).
Evict(rg, u) ==
  [rg EXCEPT !.online = @ \ {u}, !.entry[u] = <<>>]

\* A registration that appends the id whether or not the row holds it.
addOnlineUserAppending(rg, open, up, u, c) ==
  IF ~up THEN rg
  ELSE [rg EXCEPT !.entry[u] = Append(@, c), !.online = @ \cup {u},
                  !.socketUser[c] = u]

\* A registration that adds the id to the stored ids as they are, without
\* validating them.
addOnlineUserUnreconciled(rg, open, up, u, c) ==
  IF ~up THEN rg
  ELSE LET stored ==
             IF rg.entry[u] # <<>>
             THEN IF c \notin Range(rg.entry[u])
                  THEN [rg EXCEPT !.entry[u] = Append(@, c)]
                  ELSE rg
             ELSE [rg EXCEPT !.entry[u] = <<c>>, !.online = @ \cup {u}]
       IN [stored EXCEPT !.socketUser[c] = u]

addOnlineUser(rg, open, up, u, c) ==
  IF ~up THEN rg
  ELSE LET v == validateSocketIds(rg, open, up, rg.entry[u])
           stored ==
             IF rg.entry[u] # <<>>
             THEN IF c \notin Range(v.valid)
                  THEN [v.rg EXCEPT !.entry[u] = Append(v.valid, c)]
                  ELSE v.rg
             ELSE [rg EXCEPT !.entry[u] = <<c>>, !.online = @ \cup {u}]
       IN [stored EXCEPT !.socketUser[c] = u]

\* An unregistration that keeps the other ids without validating them.
removeOnlineUserUnvalidated(rg, open, up, c) ==
  IF ~up \/ rg.socketUser[c] = Null THEN rg
  ELSE LET u == rg.socketUser[c]
           notC(x) == x # c
           rest == SelectSeq(rg.entry[u], notC)
       IN [(IF rest = <<>> THEN Evict(rg, u) ELSE [rg EXCEPT !.entry[u] = rest])
             EXCEPT !.socketUser[c] = Null]

removeOnlineUser(rg, open, up, c) ==
  IF ~up \/ rg.socketUser[c] = Null THEN rg
  ELSE LET u == rg.socketUser[c]
           notC(x) == x # c
           v == validateSocketIds(rg, open, up, SelectSeq(rg.entry[u], notC))
           stored ==
             IF rg.entry[u] = <<>> THEN rg
             ELSE IF v.valid = <<>> THEN Evict(v.rg, u)
             ELSE [v.rg EXCEPT !.entry[u] = v.valid]
       IN [stored EXCEPT !.socketUser[c] = Null]

\* A listing that trusts the row: a user with a row is online.
OnlineRowUnvalidated(rg, open, u) ==
  IF rg.entry[u] # <<>>
  THEN [rows |-> <<[id |-> u, name |-> UserName(u)]>>, rg |-> rg]
  ELSE [rows |-> <<>>, rg |-> [rg EXCEPT !.online = @ \ {u}]]

\* One user of getOnlineUsers' loop: the row, if any, and the registry after.
OnlineRow(rg, open, u) ==
  LET v == validateSocketIds(rg, open, TRUE, rg.entry[u])
  IN IF rg.entry[u] # <<>> /\ v.valid # <<>>
     THEN [rows |-> <<[id |-> u, name |-> UserName(u)]>>, rg |-> v.rg]
     ELSE IF rg.entry[u] # <<>>
     THEN [rows |-> <<>>, rg |-> Evict(v.rg, u)]
     ELSE [rows |-> <<>>, rg |-> [rg EXCEPT !.online = @ \ {u}]]

RECURSIVE OnlineRows(_, _, _)
OnlineRows(rg, open, us) ==
  IF us = <<>> THEN [rows |-> <<>>, rg |-> rg]
  ELSE LET head == OnlineRow(rg, open, us[1])
           rest == OnlineRows(head.rg, open, Tail(us))
       IN [rows |-> head.rows \o rest.rows, rg |-> rest.rg]

\* The rows of the users with a valid socket; a Redis error yields no row.
getOnlineUsers(rg, open, up) ==
  IF ~up THEN [rows |-> <<>>, rg |-> rg]
  ELSE OnlineRows(rg, open, SortedSeq(rg.online))

\* One user of cleanupStaleSocketIds' loop.
StaleUser(rg, open, u) ==
  LET v == validateSocketIds(rg, open, TRUE, rg.entry[u])
  IN IF rg.entry[u] = <<>> THEN rg
     ELSE IF Len(v.valid) = Len(rg.entry[u]) THEN v.rg
     ELSE IF v.valid = <<>> THEN Evict(v.rg, u)
     ELSE [v.rg EXCEPT !.entry[u] = v.valid]

RECURSIVE StaleUsers(_, _, _)
StaleUsers(rg, open, us) ==
  IF us = <<>> THEN rg
  ELSE StaleUsers(StaleUser(rg, open, us[1]), open, Tail(us))

\* A sweep that looks at nothing.
cleanupStaleSocketIdsIdle(rg, open, up) == rg

cleanupStaleSocketIds(rg, open, up) ==
  IF ~up THEN rg ELSE StaleUsers(rg, open, SortedSeq(rg.online))

\* A reconciliation that reports and deletes the reverse mappings but
\* leaves the row as it found it.
validateUserConnectionsReportOnly(rg, open, up, u) ==
  IF ~up \/ rg.entry[u] = <<>>
  THEN [valid |-> <<>>, removed |-> <<>>, rg |-> rg]
  ELSE LET v == validateSocketIds(rg, open, up, rg.entry[u])
           bad(c) == ~validateSocketConnection(rg, open, up, c)
       IN [valid |-> v.valid, removed |-> SelectSeq(rg.entry[u], bad), rg |-> v.rg]

\* isValid = redisMapping && socket && isConnected, id by id; a removed id
\* loses its reverse mapping, and the row is rewritten only when an id was
\* removed.
validateUserConnections(rg, open, up, u) ==
  IF ~up \/ rg.entry[u] = <<>>
  THEN [valid |-> <<>>, removed |-> <<>>, rg |-> rg]
  ELSE LET v == validateSocketIds(rg, open, up, rg.entry[u])
           bad(c) == ~validateSocketConnection(rg, open, up, c)
           removed == SelectSeq(rg.entry[u], bad)
       IN [valid |-> v.valid, removed |-> removed,
           rg |-> IF removed = <<>> THEN v.rg
                  ELSE IF v.valid = <<>> THEN Evict(v.rg, u)
                  ELSE [v.rg EXCEPT !.entry[u] = v.valid]]

(***************************************************************************)
(* Connections: the handshake, handleConnection and handleDisconnect.      *)
(***************************************************************************)
\* A JWT as jwtService.verify sees it: its subject, and whether it verifies
\* ("ok"), has expired or is otherwise rejected ("bad").
NoToken == [sub |-> Null, state |-> "none"]
Tokens ==
  {NoToken} \cup [sub : UserRefs \cup {Null}, state : {"ok", "expired", "bad"}]

\* The four places of a handshake that can carry a token.
Handshake(auth, bearer, cookie, query) ==
  [auth |-> auth, bearer |-> bearer, cookie |-> cookie, query |-> query]

\* WsJwtGuard.getRequest: the token of the first place that holds one, NoToken
\* where it throws 'JWT token not found in WebSocket handshake'.
getRequest(h) ==
  IF h.auth # NoToken THEN h.auth
  ELSE IF h.bearer # NoToken THEN h.bearer
  ELSE IF h.cookie # NoToken THEN h.cookie
  ELSE h.query

\* jwtService.verify and the checks around it: the error's name, "" if none.
VerifyError(token) ==
  IF token = NoToken THEN "UnauthorizedException"
  ELSE IF token.state = "expired" THEN "TokenExpiredError"
  ELSE IF token.state = "bad" THEN "JsonWebTokenError"
  ELSE IF token.sub = Null \/ token.sub \notin UserIds THEN "UnauthorizedException"
  ELSE ""

\* An extractAuthenticatedUser that takes a verified token whose subject the
\* table does not hold for the first user's.
extractAuthenticatedUserAdopting(h) ==
  IF h.cookie # NoToken /\ h.cookie.state = "ok" /\ h.cookie.sub # Null
       /\ h.cookie.sub \notin UserIds
    THEN [err |-> "", user |-> 1]
  ELSE [err |-> VerifyError(h.cookie), user |-> h.cookie.sub]

\* extractAuthenticatedUser reads the jwt cookie and nothing else.
extractAuthenticatedUser(h) ==
  [err |-> VerifyError(h.cookie), user |-> h.cookie.sub]

\* storeSocketToken and cleanupSocketToken swallow a Redis error.
storeSocketToken(rg, up, c, u) ==
  IF up THEN [rg EXCEPT !.socketToken[c] = u] ELSE rg

cleanupSocketToken(rg, up, c) ==
  IF up THEN [rg EXCEPT !.socketToken[c] = Null] ELSE rg

\* broadcastOnlineUsers: server.emit to the sockets in open.
broadcastOnlineUsers(rg, open, up) ==
  LET b == getOnlineUsers(rg, open, up)
  IN [rg |-> b.rg,
      msg |-> [to |-> open, event |-> "user:online_users", kind |-> "broadcast",
               payload |-> [users |-> b.rows, count |-> Len(b.rows)]]]

\* handleDisconnect of socket c, which has left the sockets in open.
handleDisconnect(rg, open, up, c) ==
  broadcastOnlineUsers(cleanupSocketToken(removeOnlineUser(rg, open, up, c), up, c),
                       open, up)

\* What the handlers of a connection write and what they leave alone.
HubStep(rg, open, out) ==
  /\ registry' = rg
  /\ sockets' = open
  /\ outbox' = out
  /\ UNCHANGED <<sprints, tasks, nextSprint, nextTask, redisUp, pending, calls>>

\* An emit that reaches every open socket where client.emit reaches one.
ToSocketAndOthers(c, event, payload) ==
  [to |-> sockets \cup {c}, event |-> event, kind |-> "reply", payload |-> payload]

ToSocket(c, event, payload) ==
  [to |-> {c}, event |-> event, kind |-> "reply", payload |-> payload]

\* A handler that greets the socket where the gateway's sends the notice.
AuthNoticeAsGreeting(c, err) ==
  ToSocket(c, "connected", [message |-> "WebSocket connected"])

AuthNotice(c, err) ==
  IF err = "TokenExpiredError"
  THEN ToSocket(c, "auth:token_expired",
                [message |-> "Your session has expired. Please refresh your token."])
  ELSE ToSocket(c, "auth:error", [message |-> "Authentication failed"])

\* No socket and no key bears the id: socket.io hands out ids it never used.
Fresh(c) ==
  /\ c \notin sockets /\ c \notin timers
  /\ registry.socketUser[c] = Null /\ registry.socketToken[c] = Null
  /\ \A u \in UserIds : c \notin Range(registry.entry[u])

\* handleConnection of a new socket c whose handshake is h.  A failure in the
\* try block is answered with a notice and client.disconnect(), on which
\* handleDisconnect runs.
HandleConnection(c, h) ==
  /\ Fresh(c) /\ pending = NoPending
  /\ LET a == extractAuthenticatedUser(h)
         open == sockets \cup {c}
         rg1 == addOnlineUser(storeSocketToken(registry, redisUp, c, a.user),
                              open, redisUp, a.user, c)
         b == broadcastOnlineUsers(rg1, open, redisUp)
         g == SprintGetAll(sprints, cache, redisUp)
         connected == ToSocket(c, "connected", [message |-> "WebSocket connected"])
     IN IF a.err # ""
          THEN LET d == handleDisconnect(registry, sockets, redisUp, c)
               IN HubStep(d.rg, sockets, <<AuthNotice(c, a.err), d.msg>>)
                  /\ UNCHANGED cache
        ELSE IF g.err # ""
          THEN LET d == handleDisconnect(b.rg, sockets, redisUp, c)
               IN HubStep(d.rg, sockets,
                          <<b.msg, connected, AuthNotice(c, g.err), d.msg>>)
                  /\ UNCHANGED cache
        ELSE HubStep(b.rg, open,
                     <<b.msg, connected, ToSocket(c, "sprint:get_all", [sprints |-> g.val])>>)
             /\ cache' = g.ch
  /\ lapsed' = lapsed \ {c} /\ renewed' = renewed \ {c}
  /\ UNCHANGED timers

\* The client closes socket c, or the transport reports it lost.
HandleDisconnect(c) ==
  /\ c \in sockets /\ pending = NoPending
  /\ LET d == handleDisconnect(registry, sockets \ {c}, redisUp, c)
     IN HubStep(d.rg, sockets \ {c}, <<d.msg>>)
  /\ UNCHANGED <<cache, timers, lapsed, renewed>>

\* handleRequestOnlineUsers
HandleRequestOnlineUsers(c) ==
  /\ c \in sockets /\ pending = NoPending
  /\ LET b == getOnlineUsers(registry, sockets, redisUp)
     IN HubStep(b.rg, sockets,
                <<ToSocket(c, "user:online_users",
                           [users |-> b.rows, count |-> Len(b.rows)])>>)
  /\ UNCHANGED <<cache, timers, lapsed, renewed>>

\* handleValidateConnections
HandleValidateConnections(c) ==
  /\ c \in sockets /\ pending = NoPending
  /\ LET u == registry.socketUser[c]
         r == validateUserConnections(registry, sockets, redisUp, u)
     IN IF ~redisUp
          THEN HubStep(registry, sockets,
                       <<ToSocket(c, "user:validation_result",
                                  [error |-> "Failed to validate connections"])>>)
        ELSE IF u = Null
          THEN HubStep(registry, sockets,
                       <<ToSocket(c, "user:validation_result",
                                  [error |-> "User not found for this socket"])>>)
        ELSE HubStep(r.rg, sockets,
                     <<ToSocket(c, "user:validation_result",
                                [userId |-> u, validConnections |-> r.valid,
                                 removedConnections |-> r.removed])>>)
  /\ UNCHANGED <<cache, timers, lapsed, renewed>>

(***************************************************************************)
(* The environment                                                         *)
(***************************************************************************)
\* A socket completes its handshake and joins server.sockets.sockets.
SocketOpens(c) ==
  /\ c \notin sockets
  /\ sockets' = sockets \cup {c}
  /\ UNCHANGED <<sprints, tasks, nextSprint, nextTask, cache, redisUp, outbox, pending, hubVars>>

\* A socket closes.
SocketCloses(c) ==
  /\ c \in sockets
  /\ sockets' = sockets \ {c}
  /\ UNCHANGED <<sprints, tasks, nextSprint, nextTask, cache, redisUp, outbox, pending, hubVars>>

\* Redis stops answering: every command rejects until it recovers.
RedisFails ==
  /\ redisUp /\ redisUp' = FALSE
  /\ UNCHANGED <<sprints, tasks, nextSprint, nextTask, cache, sockets, outbox, pending, hubVars>>

RedisRecovers ==
  /\ ~redisUp /\ redisUp' = TRUE
  /\ UNCHANGED <<sprints, tasks, nextSprint, nextTask, cache, sockets, outbox, pending, hubVars>>

(***************************************************************************)
(* The two setInterval sweeps of startTokenValidationScheduler, the        *)
(* setTimeout a token sweep arms, and what the keys' TTLs do.              *)
(***************************************************************************)
\* What a sweep or a timer writes: no request is being answered.
Background(rg, open, out) ==
  /\ registry' = rg
  /\ sockets' = open
  /\ outbox' = out
  /\ UNCHANGED <<sprints, tasks, nextSprint, nextTask, cache, redisUp, pending, calls>>

\* A stale-socket sweep whose Redis error is not caught: the rejection of
\* the interval's callback ends the process and with it every connection.
CleanupStaleSocketIdsFatal ==
  /\ IF redisUp
       THEN Background(StaleUsers(registry, sockets, SortedSeq(registry.online)), sockets, <<>>)
     ELSE Background(registry, {}, <<>>)
  /\ UNCHANGED <<timers, lapsed, renewed>>

\* The stale-socket sweep, every 5 minutes.
CleanupStaleSocketIds ==
  /\ Background(cleanupStaleSocketIds(registry, sockets, redisUp), sockets, <<>>)
  /\ UNCHANGED <<timers, lapsed, renewed>>

\* One socket_token:<c> key of checkAllTokensValidity' loop: a token that no
\* longer verifies has its socket, if the server holds it, notified and its
\* timeout armed; the key is deleted and the socket unregistered at once.
\* acc is [rg, out, armed].
CheckToken(acc, open, c) ==
  IF acc.rg.socketToken[c] = Null \/ c \notin lapsed THEN acc
  ELSE [rg |-> removeOnlineUser([acc.rg EXCEPT !.socketToken[c] = Null], open, TRUE, c),
        out |-> IF c \in open
                THEN Append(acc.out, AuthNotice(c, "TokenExpiredError"))
                ELSE acc.out,
        armed |-> IF c \in open THEN acc.armed \cup {c} ELSE acc.armed]

RECURSIVE CheckTokens(_, _, _)
CheckTokens(acc, open, cs) ==
  IF cs = <<>> THEN acc
  ELSE CheckTokens(CheckToken(acc, open, cs[1]), open, Tail(cs))

checkAllTokensValidity(rg, open, up) ==
  IF ~up THEN [rg |-> rg, out |-> <<>>, armed |-> {}]
  ELSE CheckTokens([rg |-> rg, out |-> <<>>, armed |-> {}], open, SortedSeq(ConnIds))

\* The token sweep, every 2 minutes.
CheckAllTokensValidity ==
  /\ LET r == checkAllTokensValidity(registry, sockets, redisUp)
     IN /\ Background(r.rg, sockets, r.out)
        /\ timers' = timers \cup r.armed
  /\ UNCHANGED <<lapsed, renewed>>

\* The timeout armed for socket c fires, 5 seconds after the notice:
\* if (socket.connected) socket.disconnect(true).
GraceTimerFires(c) ==
  /\ c \in timers /\ pending = NoPending
  /\ timers' = timers \ {c}
  /\ IF c \in sockets
       THEN LET d == handleDisconnect(registry, sockets \ {c}, redisUp, c)
            IN Background(d.rg, sockets \ {c}, <<d.msg>>)
     ELSE Background(registry, sockets, <<>>)
  /\ UNCHANGED <<lapsed, renewed>>

\* The token socket c presented at its handshake passes its expiry.
TokenLapses(c) ==
  /\ registry.socketToken[c] # Null /\ c \notin lapsed
  /\ lapsed' = lapsed \cup {c}
  /\ UNCHANGED <<sprints, tasks, nextSprint, nextTask, cache, redisUp, sockets, outbox,
                 pending, calls, registry, timers, renewed>>

\* AuthController.refresh: the client of socket c, told that its token has
\* expired, is given a new jwt cookie.  Nothing of the gateway is written.
ClientRefreshes(c) ==
  /\ c \in sockets /\ c \in timers /\ c \notin renewed
  /\ renewed' = renewed \cup {c}
  /\ UNCHANGED <<sprints, tasks, nextSprint, nextTask, cache, redisUp, sockets, outbox,
                 pending, calls, registry, timers, lapsed>>

\* socket_user:<c> reaches its TTL of one hour, which nothing renews.
MappingExpires(c) ==
  /\ registry.socketUser[c] # Null
  /\ registry' = [registry EXCEPT !.socketUser[c] = Null]
  /\ UNCHANGED <<sprints, tasks, nextSprint, nextTask, cache, redisUp, sockets, outbox,
                 pending, calls, timers, lapsed, renewed>>

(***************************************************************************)
(* The server after bootstrap: empty tables, empty cache, no connection.   *)
(***************************************************************************)
Init ==
  /\ sprints = <<>> /\ tasks = <<>>
  /\ nextSprint = 1 /\ nextTask = 1
  /\ cache = EmptyCache
  /\ redisUp = TRUE
  /\ sockets = {}
  /\ outbox = <<>>
  /\ pending = NoPending
  /\ registry = EmptyRegistry
  /\ timers = {} /\ lapsed = {} /\ renewed = {}
  /\ calls = NoCalls

(***************************************************************************)
(* Request payloads.  Each set holds valid values and the invalid ones the *)
(* handlers test for.                                                      *)
(***************************************************************************)
SprintRefs == SprintIds \cup {Null}
TaskRefs == TaskIds \cup {Null}

\* A valid task:create payload for a top-level task of sprint s.
FlatTask(s) ==
  [title |-> "t", description |-> "", hours |-> 1, sprintId |-> s,
   parentId |-> Null, assignedTo |-> Null]

\* task:create payloads for a top-level task, valid and invalid.
CreateTaskData ==
  [title : {"t", ""}, description : {""}, hours : {1, 0}, sprintId : SprintRefs,
   parentId : {Null}, assignedTo : {Null, 2}]

\* task:create payloads that are valid but for the task and sprint they name.
TreeTaskData ==
  [title : {"t"}, description : {""}, hours : {1}, sprintId : SprintIds,
   parentId : TaskRefs, assignedTo : {Null}]

\* PATCH /task/update bodies that move a task under another parent.
ReparentBody ==
  [id : TaskIds, has : {{"parentId"}}, title : {"t"}, sprintId : SprintIds,
   parentId : TaskRefs, assignedTo : {Null}]

\* PATCH /task/update bodies that move a task to another sprint.
MoveBody ==
  [id : TaskIds, has : {{"sprintId"}}, title : {"t"}, sprintId : SprintIds,
   parentId : {Null}, assignedTo : {Null}]

PageIndexes == {0, -1}
PageLimits == {0, MaxLimit + 1}

(***************************************************************************)
(* The task tree under createTask and deleteTask alone, one client.        *)
(***************************************************************************)
NextTree ==
  \/ SocketOpens(1)
  \/ HandleCreateSprint(1, "s")
  \/ \E data \in TreeTaskData : HandleCreateTask(1, data)
  \/ ReturnCreateTask
  \/ \E id \in TaskIds : HandleRequestDeleteTask(1, id)
  \/ \E id \in TaskIds : ControllerDelete(id)
  \/ ReturnDeleteTask

SpecTree == Init /\ [][NextTree]_vars

(***************************************************************************)
(* The task tree when PATCH /task/update also moves tasks between parents. *)
(***************************************************************************)
NextReparent ==
  \/ NextTree
  \/ \E body \in ReparentBody : ControllerUpdate(body)
  \/ ReturnUpdateTask

SpecReparent == Init /\ [][NextReparent]_vars

(***************************************************************************)
(* The listing cache of top-level tasks under every task mutation: one     *)
(* client, Redis up, the field changes made to the first task.             *)
(***************************************************************************)
NextCache ==
  \/ SocketOpens(1)
  \/ HandleCreateSprint(1, "s")
  \/ \E s \in SprintIds : nextTask <= MaxFlat /\ HandleCreateTask(1, FlatTask(s))
  \/ ReturnCreateTask
  \/ \E id \in TaskIds : HandleRequestDeleteTask(1, id)
  \/ ReturnDeleteTask
  \/ \E body \in MoveBody : ControllerUpdate(body)
  \/ ReturnUpdateTask
  \/ HandleSetTaskStatus(1, 1, "IN_PROGRESS")
  \/ HandleChangeTaskDescription(1, 1, "d")
  \/ HandleChangeTaskName(1, 1, "n")
  \/ HandleChangeTaskAssignee(1, 1, 1)
  \/ \E s \in SprintIds, i \in PageIndexes, l \in PageLimits :
       HandleGetTasksByIndex(1, s, i, l, TRUE)

SpecCache == Init /\ [][NextCache]_vars

(***************************************************************************)
(* The gateway relaying task traffic between clients that come and go,     *)
(* with Redis failing and recovering.                                      *)
(***************************************************************************)
NextHub ==
  \/ \E c \in ConnIds : SocketOpens(c)
  \/ \E c \in ConnIds : SocketCloses(c)
  \/ RedisFails
  \/ RedisRecovers
  \/ \E c \in ConnIds : HandleCreateSprint(c, "s")
  \/ \E c \in ConnIds, data \in CreateTaskData :
       nextTask <= MaxFlat /\ HandleCreateTask(c, data)
  \/ ReturnCreateTask
  \/ \E c \in ConnIds, id \in TaskRefs : HandleRequestDeleteTask(c, id)
  \/ ReturnDeleteTask
  \/ \E c \in ConnIds, id \in TaskIds, st \in {"OPEN", "IN_PROGRESS"} :
       HandleSetTaskStatus(c, id, st)

SpecHub == Init /\ [][NextHub]_vars

(***************************************************************************)
(* Sprint requests and the single-field task changes, Redis up, the field  *)
(* changes made to the first sprint and the first task.                    *)
(***************************************************************************)
NextSprint ==
  \/ \E c \in ConnIds : SocketOpens(c)
  \/ \E c \in ConnIds, name \in {"s", ""} : HandleCreateSprint(c, name)
  \/ \E c \in ConnIds, id \in SprintRefs, st \in {"IN_PROGRESS", "DONE"} :
       HandleSetSprintStatus(c, id, st)
  \/ \E c \in ConnIds, d \in {"d", NotAString} : HandleChangeSprintDescription(c, 1, d)
  \/ \E c \in ConnIds, n \in {"n", NotAString} : HandleChangeSprintName(c, 1, n)
  \/ \E c \in ConnIds, id \in SprintRefs : HandleRequestDeleteSprint(c, id)
  \/ \E c \in ConnIds, s \in SprintIds :
       nextTask <= MaxFlat /\ HandleCreateTask(c, FlatTask(s))
  \/ ReturnCreateTask
  \/ \E c \in ConnIds, d \in {"d", NotAString} : HandleChangeTaskDescription(c, 1, d)
  \/ \E c \in ConnIds, n \in {"n", NotAString} : HandleChangeTaskName(c, 1, n)
  \/ \E c \in ConnIds, u \in UserRefs : HandleChangeTaskAssignee(c, 1, u)

SpecSprint == Init /\ [][NextSprint]_vars

(***************************************************************************)
(* Handshakes.                                                             *)
(***************************************************************************)
\* A token that verifies for user u.
GoodToken(u) == [sub |-> u, state |-> "ok"]

\* A browser's handshake: the jwt cookie and nothing else.
CookieOnly(token) == Handshake(NoToken, NoToken, token, NoToken)

\* The tokens of the handshakes explored: none, a good one, one of a user the
\* table does not hold, an expired one, a forged one, one without subject.
TokenSamples ==
  {NoToken, GoodToken(1), GoodToken(3), [sub |-> 1, state |-> "expired"],
   [sub |-> 1, state |-> "bad"], [sub |-> Null, state |-> "ok"]}

\* The handshakes explored: a browser's, with each of those tokens; a good
\* token in one of the other three places; and two places that disagree.
Handshakes ==
  {CookieOnly(t) : t \in TokenSamples}
    \cup {Handshake(GoodToken(1), NoToken, NoToken, NoToken),
          Handshake(NoToken, GoodToken(1), NoToken, NoToken),
          Handshake(NoToken, NoToken, NoToken, GoodToken(1)),
          Handshake(GoodToken(2), NoToken, GoodToken(1), NoToken)}

(***************************************************************************)
(* The presence registry under clients that connect, leave and vanish,     *)
(* with the stale-socket sweep, the reverse mapping's TTL and Redis        *)
(* failing and recovering.                                                 *)
(***************************************************************************)
NextPresence ==
  \/ \E c \in ConnIds, u \in UserIds : HandleConnection(c, CookieOnly(GoodToken(u)))
  \/ \E c \in ConnIds : HandleDisconnect(c)
  \/ \E c \in ConnIds : SocketCloses(c)
  \/ \E c \in ConnIds : MappingExpires(c)
  \/ CleanupStaleSocketIds
  \/ \E c \in ConnIds : HandleRequestOnlineUsers(c)
  \/ \E c \in ConnIds : HandleValidateConnections(c)
  \/ RedisFails
  \/ RedisRecovers

SpecPresence == Init /\ [][NextPresence]_vars

(***************************************************************************)
(* Authentication and the life of a connection: every handshake, the token *)
(* sweep and its timeout, one sprint to list.                              *)
(***************************************************************************)
NextConn ==
  \/ \E c \in ConnIds, h \in Handshakes : HandleConnection(c, h)
  \/ \E c \in ConnIds : HandleDisconnect(c)
  \/ \E c \in ConnIds : SocketCloses(c)
  \/ \E c \in ConnIds : TokenLapses(c)
  \/ CheckAllTokensValidity
  \/ \E c \in ConnIds : GraceTimerFires(c)
  \/ \E c \in ConnIds : ClientRefreshes(c)
  \/ \E c \in ConnIds : nextSprint <= 1 /\ HandleCreateSprint(c, "s")
  \/ RedisFails
  \/ RedisRecovers

SpecConn == Init /\ [][NextConn]_vars

(***************************************************************************)
(* The stale-socket sweep under its setInterval: Redis answering, clients  *)
(* that connect, leave and vanish, and the sweep run again and again.      *)
(***************************************************************************)
NextSweep ==
  \/ \E c \in ConnIds, u \in UserIds : HandleConnection(c, CookieOnly(GoodToken(u)))
  \/ \E c \in ConnIds : HandleDisconnect(c)
  \/ \E c \in ConnIds : SocketCloses(c)
  \/ \E c \in ConnIds : MappingExpires(c)
  \/ \E c \in ConnIds : HandleRequestOnlineUsers(c)
  \/ CleanupStaleSocketIds

SpecSweep == Init /\ [][NextSweep]_vars /\ WF_vars(CleanupStaleSocketIds)

(***************************************************************************)
(* Sprints deleted while the pages of their tasks are read: one client,    *)
(* Redis up, tasks at the top level and one level below.                   *)
(***************************************************************************)
NextPurge ==
  \/ SocketOpens(1)
  \/ HandleCreateSprint(1, "s")
  \/ \E s \in SprintIds, p \in {Null, 1} :
       nextTask <= MaxFlat /\ HandleCreateTask(1, [FlatTask(s) EXCEPT !.parentId = p])
  \/ ReturnCreateTask
  \/ \E s \in SprintIds : HandleRequestDeleteSprint(1, s)
  \/ \E s \in SprintIds : HandleGetTasksByIndex(1, s, 0, 0, TRUE)
  \/ \E t \in 1..MaxFlat : HandleGetTaskChildrenByIndex(1, t, 0, 0, TRUE)

SpecPurge == Init /\ [][NextPurge]_vars

(***************************************************************************)
(* Pages of the first sprint's top-level tasks read in both directions     *)
(* while tasks are created and moved to another sprint: one client, Redis  *)
(* up.                                                                     *)
(***************************************************************************)
\* The index and limit fields of the page requests.  Pages of two rows are
\* requested forward from index 0 and backward from index 1 only.
WalkIndexes == {0, 1}
WalkLimits == {1, 2}

NextPages ==
  \/ SocketOpens(1)
  \/ HandleCreateSprint(1, "s")
  \/ nextTask <= MaxFlat /\ HandleCreateTask(1, FlatTask(1))
  \/ ReturnCreateTask
  \/ \E body \in MoveBody : ControllerUpdate(body)
  \/ ReturnUpdateTask
  \/ \E i \in WalkIndexes, l \in WalkLimits, d \in BOOLEAN :
       (l = 1 \/ (i = 0) = d) /\ HandleGetTasksByIndex(1, 1, i, l, d)

SpecPages == Init /\ [][NextPages]_vars

(***************************************************************************)
(* Requests that name sprints, tasks and users that may not exist, between *)
(* reads that fill the cache: one client, Redis up.                        *)
(***************************************************************************)
\* task:create payloads whose sprint, parent and assignee may not resolve:
\* the second sprint is never created here and the users are UserIds.
RefTaskData ==
  [title : {"t"}, description : {""}, hours : {1}, sprintId : SprintIds,
   parentId : {Null, 1, MaxTasks}, assignedTo : {Null} \cup (UserRefs \ UserIds)]

\* The task ids of the requests: the first task and the last.
RefTaskIds == {1, MaxTasks}

\* PATCH /task/update bodies that rename a task.
RenameBody ==
  [id : RefTaskIds, has : {{"title"}}, title : {"n"}, sprintId : {1},
   parentId : {Null}, assignedTo : {Null}]

NextRefs ==
  \/ SocketOpens(1)
  \/ nextSprint = 1 /\ HandleCreateSprint(1, "s")
  \/ \E data \in RefTaskData : HandleCreateTask(1, data)
  \/ ReturnCreateTask
  \/ \E body \in RenameBody : ControllerUpdate(body)
  \/ ReturnUpdateTask
  \/ \E id \in RefTaskIds : HandleRequestDeleteTask(1, id)
  \/ ReturnDeleteTask
  \/ \E id \in RefTaskIds : HandleSetTaskStatus(1, id, "IN_PROGRESS")
  \/ \E id \in RefTaskIds : HandleChangeTaskDescription(1, id, "d")
  \/ \E id \in RefTaskIds : HandleChangeTaskName(1, id, "n")
  \/ \E id \in RefTaskIds : HandleChangeTaskAssignee(1, id, 1)
  \/ HandleGetTasksByIndex(1, 1, 0, 0, TRUE)
  \/ HandleGetTaskChildrenByIndex(1, 1, 0, 0, TRUE)

SpecRefs == Init /\ [][NextRefs]_vars

(***************************************************************************)
(* Connections whose token verifies, of users the table holds and of one   *)
(* it does not, with a sprint to list and Redis failing and recovering.    *)
(***************************************************************************)
NextStranger ==
  \/ \E c \in ConnIds, u \in UserRefs : HandleConnection(c, CookieOnly(GoodToken(u)))
  \/ \E c \in ConnIds : HandleDisconnect(c)
  \/ \E c \in ConnIds : nextSprint <= 1 /\ HandleCreateSprint(c, "s")
  \/ RedisFails
  \/ RedisRecovers

SpecStranger == Init /\ [][NextStranger]_vars

(***************************************************************************)
(* The second task of the first sprint moved between sprints and between   *)
(* parents by PATCH /task/update, between reads of the sprints' listings   *)
(* and of the first task's children: one client, Redis up.                 *)
(***************************************************************************)
\* The bodies of PATCH /task/update that move the second task.
MoveSecond == {b \in MoveBody \cup ReparentBody : b.id = 2}

NextMove ==
  \/ SocketOpens(1)
  \/ HandleCreateSprint(1, "s")
  \/ \E p \in {Null, 1} :
       nextTask <= MaxFlat /\ HandleCreateTask(1, [FlatTask(1) EXCEPT !.parentId = p])
  \/ ReturnCreateTask
  \/ \E body \in MoveSecond : ControllerUpdate(body)
  \/ ReturnUpdateTask
  \/ \E s \in SprintIds : HandleGetTasksByIndex(1, s, 0, 0, TRUE)
  \/ HandleGetTaskChildrenByIndex(1, 1, 0, 0, TRUE)

SpecMove == Init /\ [][NextMove]_vars

(***************************************************************************)
(* The two sweeps under their setIntervals while Redis fails and recovers: *)
(* clients that connect, leave and vanish, tokens that expire, and both    *)
(* sweeps run again and again whatever the run before met.                 *)
(***************************************************************************)
NextTicks ==
  \/ \E c \in ConnIds, u \in UserIds : HandleConnection(c, CookieOnly(GoodToken(u)))
  \/ \E c \in ConnIds : HandleDisconnect(c)
  \/ \E c \in ConnIds : SocketCloses(c)
  \/ \E c \in ConnIds : TokenLapses(c)
  \/ \E c \in ConnIds : GraceTimerFires(c)
  \/ CleanupStaleSocketIds
  \/ CheckAllTokensValidity
  \/ RedisFails
  \/ RedisRecovers

SpecTicks ==
  /\ Init /\ [][NextTicks]_vars
  /\ WF_vars(CleanupStaleSocketIds) /\ WF_vars(CheckAllTokensValidity)

(***************************************************************************)
(* The sprint listing under every sprint mutation: one client that creates *)
(* sprints, changes and deletes them, creates and deletes top-level tasks  *)
(* (which flips hasChildren), with Redis failing and recovering.           *)
(***************************************************************************)
NextListing ==
  \/ SocketOpens(1)
  \/ HandleCreateSprint(1, "s")
  \/ \E id \in SprintIds : HandleSetSprintStatus(1, id, "IN_PROGRESS")
  \/ HandleChangeSprintDescription(1, 1, "d")
  \/ HandleChangeSprintName(1, 1, "n")
  \/ \E id \in SprintIds : HandleRequestDeleteSprint(1, id)
  \/ \E s \in SprintIds : nextTask <= MaxFlat /\ HandleCreateTask(1, FlatTask(s))
  \/ ReturnCreateTask
  \/ \E id \in 1..MaxFlat : HandleRequestDeleteTask(1, id)
  \/ ReturnDeleteTask
  \/ RedisFails
  \/ RedisRecovers

SpecListing == Init /\ [][NextListing]_vars

(***************************************************************************)
(* A paginated read followed await by await.  getAllTasksBySprintWithIndex *)
(* awaits redis.get of the page, getCachedTaskCount (redis.get, task.count *)
(* and redis.set of the count), task.findMany and redis.set of the page;   *)
(* any other request can run between two of them.                          *)
(***************************************************************************)
\* The page the stepwise read asks for: index 0, the default limit, forward.
ReadKey(s) == <<s, 0, DefaultLimit, TRUE>>

ReadCall(pc, c, s, total, result) ==
  [op |-> "read", pc |-> pc, conn |-> c, sprintId |-> s, total |-> total,
   result |-> result]

\* What a step of a call leaves alone besides the cache and the outbox.
CallStep ==
  UNCHANGED <<sprints, tasks, nextSprint, nextTask, redisUp, sockets, pending,
              registry, timers, lapsed, renewed>>

\* The page is not cached; the count is taken from its key or, that key
\* missing, from task.count.
ReadCounts(k, c, s) ==
  /\ calls[k] = Idle /\ c \in sockets /\ redisUp
  /\ ReadKey(s) \notin DOMAIN cache.page
  /\ calls' = [calls EXCEPT ![k] =
                 IF s \in DOMAIN cache.count
                   THEN ReadCall("counted", c, s, cache.count[s], <<>>)
                 ELSE ReadCall("count", c, s, Len(ParentTaskIds(tasks, s)), <<>>)]
  /\ UNCHANGED <<cache, outbox>> /\ CallStep

\* getCachedTaskCount stores the count it read from storage.
ReadStoresCount(k) ==
  /\ calls[k].op = "read" /\ calls[k].pc = "count" /\ redisUp
  /\ cache' = [cache EXCEPT !.count = (calls[k].sprintId :> calls[k].total) @@ @]
  /\ calls' = [calls EXCEPT ![k].pc = "counted"]
  /\ UNCHANGED outbox /\ CallStep

\* task.findMany with the window computed from the count.
ReadFetches(k) ==
  /\ calls[k].op = "read" /\ calls[k].pc = "counted"
  /\ LET s == calls[k].sprintId
     IN calls' = [calls EXCEPT ![k].pc = "fetched",
                               ![k].result =
                                 <<PageResult(tasks, ParentTaskIds(tasks, s), 0,
                                              DefaultLimit, TRUE, calls[k].total)>>]
  /\ UNCHANGED <<cache, outbox>> /\ CallStep

\* The result is stored under the page's key and returned to the handler,
\* which replies.
ReadStores(k) ==
  /\ calls[k].op = "read" /\ calls[k].pc = "fetched" /\ redisUp
  /\ LET s == calls[k].sprintId
         res == calls[k].result[1]
     IN /\ cache' = [cache EXCEPT !.page = (ReadKey(s) :> res) @@ @]
        /\ outbox' = <<ToClient(calls[k].conn, "task:get_by_index",
                                [sprintId |-> s, tasks |-> res.tasks,
                                 pagination |-> Pagination(res, DefaultLimit)])>>
  /\ calls' = [calls EXCEPT ![k] = Idle]
  /\ CallStep

(***************************************************************************)
(* One sprint whose top-level tasks are created and deleted while a page   *)
(* of it is read step by step.                                             *)
(***************************************************************************)
NextRace ==
  \/ SocketOpens(1)
  \/ nextSprint = 1 /\ HandleCreateSprint(1, "s")
  \/ nextTask <= MaxFlat /\ HandleCreateTask(1, FlatTask(1))
  \/ ReturnCreateTask
  \/ \E id \in 1..MaxFlat : HandleRequestDeleteTask(1, id)
  \/ ReturnDeleteTask
  \/ ReadCounts("a", 1, 1)
  \/ ReadStoresCount("a")
  \/ ReadFetches("a")
  \/ ReadStores("a")

SpecRace == Init /\ [][NextRace]_vars

(***************************************************************************)
(* createTask and deleteTask followed await by await: the Prisma calls of  *)
(* one request are separate statements outside any transaction, and other  *)
(* requests run between them.  The stepwise deleteTask is that of a task   *)
(* read without children.                                                  *)
(***************************************************************************)
TaskCall(op, pc, c, id, parentId, sprintId, remaining) ==
  [op |-> op, pc |-> pc, conn |-> c, taskId |-> id, parentId |-> parentId,
   sprintId |-> sprintId, remaining |-> remaining]

\* The input of the createTask call cl, and newTask, the row task.create
\* returned to it.
CallInput(cl) == [FlatTask(cl.sprintId) EXCEPT !.parentId = cl.parentId]
NewTask(cl) == [id |-> cl.taskId] @@ TaskRow(CallInput(cl))

\* The call of request k throws: the handler's catch answers the requester.
CallThrows(k, event, message) ==
  /\ outbox' = <<ToClientError(calls[k].conn, event, message)>>
  /\ calls' = [calls EXCEPT ![k] = Idle]

\* What a step of these calls leaves alone besides the tables, the cache,
\* the outbox and the task id counter.
TaskStep ==
  UNCHANGED <<nextSprint, redisUp, sockets, pending, registry, timers, lapsed, renewed>>

\* createTask: the lookups of the sprint and of the parent.
CreateValidates(k, c, in) ==
  /\ calls[k] = Idle /\ c \in sockets /\ nextTask <= MaxTasks
  /\ in.sprintId \in DOMAIN sprints
  /\ in.parentId # Null => in.parentId \in DOMAIN tasks
  /\ calls' = [calls EXCEPT ![k] =
                 TaskCall("create", "valid", c, Null, in.parentId, in.sprintId, 0)]
  /\ UNCHANGED <<sprints, tasks, nextTask, cache, outbox>> /\ TaskStep

\* createTask: task.create, which the foreign keys refuse when the sprint or
\* the parent has been deleted since the lookups.
CreateInserts(k) ==
  /\ calls[k].op = "create" /\ calls[k].pc = "valid"
  /\ LET p == calls[k].parentId
         s == calls[k].sprintId
     IN IF s \notin DOMAIN sprints \/ (p # Null /\ p \notin DOMAIN tasks)
          THEN /\ CallThrows(k, "task:create", "Foreign key constraint failed")
               /\ UNCHANGED <<tasks, nextTask>>
        ELSE /\ tasks' = tasks @@ (nextTask :> TaskRow(CallInput(calls[k])))
             /\ nextTask' = nextTask + 1
             /\ calls' = [calls EXCEPT ![k].taskId = nextTask,
                                       ![k].pc = IF p = Null THEN "flagged" ELSE "inserted"]
             /\ UNCHANGED outbox
  /\ UNCHANGED <<sprints, cache>> /\ TaskStep

\* createTask: task.update of the parent's hasChildren to true, and the
\* invalidation of the parent's children cache.
CreateFlagsParent(k) ==
  /\ calls[k].op = "create" /\ calls[k].pc = "inserted"
  /\ LET p == calls[k].parentId
     IN IF p \notin DOMAIN tasks
          THEN /\ CallThrows(k, "task:create", "Record to update not found")
               /\ UNCHANGED <<tasks, cache>>
        ELSE /\ tasks' = [tasks EXCEPT ![p].hasChildren = TRUE]
             /\ cache' = invalidateTaskChildrenCache(cache, redisUp, p)
             /\ calls' = [calls EXCEPT ![k].pc = "flagged"]
             /\ UNCHANGED outbox
  /\ UNCHANGED <<sprints, nextTask>> /\ TaskStep

\* createTask: updateSprintHasChildren(sprintId, true), the emit of
\* task.created, invalidateSprintCache and the return to the handler.
CreateFlagsSprint(k) ==
  /\ calls[k].op = "create" /\ calls[k].pc = "flagged"
  /\ LET s == calls[k].sprintId
         r == updateSprintHasChildren(sprints, tasks, cache, redisUp, s, TRUE)
     IN IF r.err # ""
          THEN /\ CallThrows(k, "task:create", r.err)
               /\ sprints' = r.sp /\ cache' = r.ch
        ELSE /\ sprints' = r.sp
             /\ cache' = createTaskReturn(r.ch, redisUp, s)
             /\ outbox' = <<handleTaskEvent(TaskEvent(s, calls[k].taskId, "created")),
                            ToClient(calls[k].conn, "task:create",
                                     [result |-> NewTask(calls[k])])>>
             /\ calls' = [calls EXCEPT ![k] = Idle]
  /\ UNCHANGED <<tasks, nextTask>> /\ TaskStep

\* deleteTask: the row is read; it has no children.
DeleteFinds(k, c, id) ==
  /\ calls[k] = Idle /\ c \in sockets
  /\ id \in DOMAIN tasks /\ ~tasks[id].hasChildren
  /\ calls' = [calls EXCEPT ![k] =
                 TaskCall("delete", "found", c, id, tasks[id].parentId,
                          tasks[id].sprintId, 0)]
  /\ UNCHANGED <<sprints, tasks, nextTask, cache, outbox>> /\ TaskStep

\* deleteTask: task.delete.
DeleteRemoves(k) ==
  /\ calls[k].op = "delete" /\ calls[k].pc = "found"
  /\ IF calls[k].taskId \notin DOMAIN tasks
       THEN /\ CallThrows(k, "task:request_delete", "Record to delete does not exist")
            /\ UNCHANGED tasks
     ELSE /\ tasks' = TaskDeleteRow(tasks, calls[k].taskId)
          /\ calls' = [calls EXCEPT ![k].pc = IF calls[k].parentId = Null
                                                THEN "emitting" ELSE "removed"]
          /\ UNCHANGED outbox
  /\ UNCHANGED <<sprints, nextTask, cache>> /\ TaskStep

\* deleteTask: task.count of the parent's remaining children.
DeleteCountsChildren(k) ==
  /\ calls[k].op = "delete" /\ calls[k].pc = "removed"
  /\ calls' = [calls EXCEPT ![k].pc = "counted",
                            ![k].remaining = CountChildren(tasks, calls[k].parentId)]
  /\ UNCHANGED <<sprints, tasks, nextTask, cache, outbox>> /\ TaskStep

\* deleteTask: the parent's hasChildren is cleared if the count was 0, and
\* the parent's children cache is dropped.
DeleteClearsParent(k) ==
  /\ calls[k].op = "delete" /\ calls[k].pc = "counted"
  /\ LET p == calls[k].parentId
     IN IF calls[k].remaining = 0 /\ p \notin DOMAIN tasks
          THEN /\ CallThrows(k, "task:request_delete", "Record to update not found")
               /\ UNCHANGED <<tasks, cache>>
        ELSE /\ tasks' = IF calls[k].remaining = 0
                           THEN [tasks EXCEPT ![p].hasChildren = FALSE] ELSE tasks
             /\ cache' = invalidateTaskChildrenCache(cache, redisUp, p)
             /\ calls' = [calls EXCEPT ![k].pc = "emitting"]
             /\ UNCHANGED outbox
  /\ UNCHANGED <<sprints, nextTask>> /\ TaskStep

\* deleteTask: the emit of task.deleted and task.count of the sprint's
\* remaining tasks.
DeleteCountsSprint(k) ==
  /\ calls[k].op = "delete" /\ calls[k].pc = "emitting"
  /\ outbox' = <<handleTaskEvent(TaskEvent(calls[k].sprintId, calls[k].taskId, "deleted"))>>
  /\ calls' = [calls EXCEPT ![k].pc = "sprintCounted",
                            ![k].remaining = CountInSprint(tasks, calls[k].sprintId)]
  /\ UNCHANGED <<sprints, tasks, nextTask, cache>> /\ TaskStep

\* deleteTask: updateSprintHasChildren(sprintId, false) if the count was 0,
\* invalidateSprintCache and the return to the handler.
DeleteClearsSprint(k) ==
  /\ calls[k].op = "delete" /\ calls[k].pc = "sprintCounted"
  /\ LET s == calls[k].sprintId
         r == IF calls[k].remaining = 0
                THEN updateSprintHasChildren(sprints, tasks, cache, redisUp, s, FALSE)
                ELSE Ret(sprints, tasks, cache, "")
     IN IF r.err # ""
          THEN /\ CallThrows(k, "task:request_delete", r.err)
               /\ sprints' = r.sp /\ cache' = r.ch
        ELSE /\ sprints' = r.sp
             /\ cache' = invalidateSprintCache(r.ch, redisUp, s)
             /\ outbox' = <<ToClient(calls[k].conn, "task:request_delete",
                                     [taskId |-> calls[k].taskId,
                                      result |-> [id |-> calls[k].taskId, deleted |-> TRUE,
                                                  sprintId |-> s]]),
                            ToAll("task:deleted", [taskId |-> calls[k].taskId,
                                                   sprintId |-> s])>>
             /\ calls' = [calls EXCEPT ![k] = Idle]
  /\ UNCHANGED <<tasks, nextTask>> /\ TaskStep

(***************************************************************************)
(* One sprint, a parent task and its children, created and deleted by two  *)
(* requests whose service calls interleave.                                *)
(***************************************************************************)
NextSiblings ==
  \/ SocketOpens(1)
  \/ nextSprint = 1 /\ HandleCreateSprint(1, "s")
  \/ \E p \in {Null, 1} : CreateValidates("b", 1, [FlatTask(1) EXCEPT !.parentId = p])
  \/ CreateInserts("b")
  \/ CreateFlagsParent("b")
  \/ CreateFlagsSprint("b")
  \/ \E id \in TaskIds : DeleteFinds("a", 1, id)
  \/ DeleteRemoves("a")
  \/ DeleteCountsChildren("a")
  \/ DeleteClearsParent("a")
  \/ DeleteCountsSprint("a")
  \/ DeleteClearsSprint("a")

SpecSiblings == Init /\ [][NextSiblings]_vars

(***************************************************************************)
(* updateTaskStatus followed await by await, for two task:set_status       *)
(* requests on the same task.  The invalidation that follows the write is  *)
(* taken together with the return: the handler emits after it.             *)
(***************************************************************************)
StatusCall(pc, c, id, sprintId, status, updated) ==
  [op |-> "status", pc |-> pc, conn |-> c, taskId |-> id, sprintId |-> sprintId,
   status |-> status, updated |-> updated]

\* task.findUnique: the call returns the row as read when it already has the
\* status asked for, and goes on to write otherwise.
StatusFinds(k, c, id, status) ==
  /\ calls[k] = Idle /\ c \in sockets /\ id \in DOMAIN tasks
  /\ calls' = [calls EXCEPT ![k] =
                 IF tasks[id].status = status
                   THEN StatusCall("done", c, id, tasks[id].sprintId, status, FALSE)
                 ELSE StatusCall("found", c, id, tasks[id].sprintId, status, TRUE)]
  /\ UNCHANGED <<sprints, tasks, nextTask, cache, outbox>> /\ TaskStep

\* task.update({ data: { status } }), which returns the row it wrote.
StatusWrites(k) ==
  /\ calls[k].op = "status" /\ calls[k].pc = "found"
  /\ IF calls[k].taskId \notin DOMAIN tasks
       THEN /\ CallThrows(k, "task:set_status", "Record to update not found")
            /\ UNCHANGED tasks
     ELSE /\ tasks' = [tasks EXCEPT ![calls[k].taskId].status = calls[k].status]
          /\ calls' = [calls EXCEPT ![k].pc = "written",
                                    ![k].sprintId = tasks[calls[k].taskId].sprintId]
          /\ UNCHANGED outbox
  /\ UNCHANGED <<sprints, nextTask, cache>> /\ TaskStep

\* The call returns to handleSetTaskStatus, after invalidateSprintCache if it
\* wrote; the handler replies and emits task:refresh with result.status.
StatusReturns(k) ==
  /\ calls[k].op = "status" /\ calls[k].pc \in {"written", "done"}
  /\ cache' = IF calls[k].pc = "written"
                THEN invalidateSprintCache(cache, redisUp, calls[k].sprintId)
              ELSE cache
  /\ outbox' = <<ToClient(calls[k].conn, "task:set_status",
                          [id |-> calls[k].taskId,
                           result |-> [id |-> calls[k].taskId,
                                       status |-> calls[k].status,
                                       sprintId |-> calls[k].sprintId,
                                       updated |-> calls[k].updated]]),
                 ToAll("task:refresh",
                       [sprintId |-> calls[k].sprintId, taskId |-> calls[k].taskId,
                        action |-> "status_updated",
                        new_status |-> calls[k].status])>>
  /\ calls' = [calls EXCEPT ![k] = Idle]
  /\ UNCHANGED <<sprints, tasks, nextTask>> /\ TaskStep

(***************************************************************************)
(* Two clients that set the status of the same tasks at the same time.     *)
(***************************************************************************)
NextStatus ==
  \/ \E c \in ConnIds : SocketOpens(c)
  \/ nextSprint = 1 /\ HandleCreateSprint(1, "s")
  \/ nextTask <= MaxFlat /\ HandleCreateTask(1, FlatTask(1))
  \/ ReturnCreateTask
  \/ \E id \in 1..MaxFlat, st \in Statuses : StatusFinds("a", 1, id, st)
  \/ \E id \in 1..MaxFlat, st \in Statuses : StatusFinds("b", 2, id, st)
  \/ \E k \in Callers : StatusWrites(k)
  \/ \E k \in Callers : StatusReturns(k)

SpecStatus == Init /\ [][NextStatus]_vars

(***************************************************************************)
(* addOnlineUser and removeOnlineUser followed await by await, Redis       *)
(* answering: each reads user_presence:<user>, validates the ids it read   *)
(* and writes the row back in a later call.  The reads of one call are     *)
(* taken together, and so are the writes that follow its row.              *)
(***************************************************************************)
PresenceCall(op, pc, c, u, ids, had) ==
  [op |-> op, pc |-> pc, conn |-> c, user |-> u, ids |-> ids, had |-> had]

\* What a step of these calls leaves alone besides the registry, the
\* sockets, the outbox and the sprint listing cache.
PresenceStep ==
  UNCHANGED <<sprints, tasks, nextSprint, nextTask, redisUp, pending, timers>>

\* handleConnection of a new socket c of user u up to addOnlineUser's read of
\* the row and its validateSocketIds.
RegisterReads(k, c, u) ==
  /\ calls[k] = Idle /\ Fresh(c) /\ redisUp
  /\ LET open == sockets \cup {c}
         rg1 == storeSocketToken(registry, redisUp, c, u)
         v == validateSocketIds(rg1, open, redisUp, rg1.entry[u])
     IN /\ sockets' = open
        /\ registry' = IF rg1.entry[u] # <<>> THEN v.rg ELSE rg1
        /\ calls' = [calls EXCEPT ![k] =
                       PresenceCall("register", "read", c, u, v.valid, rg1.entry[u] # <<>>)]
  /\ lapsed' = lapsed \ {c} /\ renewed' = renewed \ {c}
  /\ UNCHANGED <<cache, outbox>> /\ PresenceStep

\* addOnlineUser: redis.set of the row, with sadd for a first connection.
RegisterWrites(k) ==
  /\ calls[k].op = "register" /\ calls[k].pc = "read" /\ redisUp
  /\ LET u == calls[k].user
         c == calls[k].conn
     IN registry' =
          IF calls[k].had
            THEN IF c \notin Range(calls[k].ids)
                   THEN [registry EXCEPT !.entry[u] = Append(calls[k].ids, c)]
                 ELSE registry
          ELSE [registry EXCEPT !.entry[u] = <<c>>, !.online = @ \cup {u}]
  /\ calls' = [calls EXCEPT ![k].pc = "written"]
  /\ UNCHANGED <<sockets, cache, outbox, lapsed, renewed>> /\ PresenceStep

\* addOnlineUser: redis.set of socket_user:<c>; handleConnection goes on to
\* broadcastOnlineUsers, 'connected' and the sprint listing.
RegisterMaps(k) ==
  /\ calls[k].op = "register" /\ calls[k].pc = "written" /\ redisUp
  /\ LET c == calls[k].conn
         b == broadcastOnlineUsers([registry EXCEPT !.socketUser[c] = calls[k].user],
                                   sockets, redisUp)
         g == SprintGetAll(sprints, cache, redisUp)
     IN /\ registry' = b.rg
        /\ cache' = g.ch
        /\ outbox' = <<b.msg, ToSocket(c, "connected", [message |-> "WebSocket connected"]),
                       ToSocket(c, "sprint:get_all", [sprints |-> g.val])>>
  /\ calls' = [calls EXCEPT ![k] = Idle]
  /\ UNCHANGED <<sockets, lapsed, renewed>> /\ PresenceStep

\* handleDisconnect of socket c, which has closed, up to removeOnlineUser's
\* reads of socket_user:<c> and of the row and its validateSocketIds of the
\* other ids.
UnregisterReads(k, c) ==
  /\ calls[k] = Idle /\ c \in sockets /\ redisUp
  /\ \A j \in Callers : calls[j] # Idle => calls[j].conn # c
  /\ LET open == sockets \ {c}
         u == registry.socketUser[c]
         notC(x) == x # c
         v == validateSocketIds(registry, open, redisUp, SelectSeq(registry.entry[u], notC))
     IN /\ sockets' = open
        /\ IF u = Null \/ registry.entry[u] = <<>>
             THEN /\ registry' = registry
                  /\ calls' = [calls EXCEPT ![k] =
                                 PresenceCall("unregister", "read", c, u, <<>>, FALSE)]
           ELSE /\ registry' = v.rg
                /\ calls' = [calls EXCEPT ![k] =
                               PresenceCall("unregister", "read", c, u, v.valid, TRUE)]
  /\ UNCHANGED <<cache, outbox, lapsed, renewed>> /\ PresenceStep

\* removeOnlineUser: srem and del when no valid id is left, else redis.set of
\* the row with the valid ids.
UnregisterWrites(k) ==
  /\ calls[k].op = "unregister" /\ calls[k].pc = "read" /\ redisUp
  /\ LET u == calls[k].user
     IN registry' =
          IF ~calls[k].had THEN registry
          ELSE IF calls[k].ids = <<>> THEN Evict(registry, u)
          ELSE [registry EXCEPT !.entry[u] = calls[k].ids]
  /\ calls' = [calls EXCEPT ![k].pc = "written"]
  /\ UNCHANGED <<sockets, cache, outbox, lapsed, renewed>> /\ PresenceStep

\* removeOnlineUser: del of socket_user:<c>; handleDisconnect goes on to
\* cleanupSocketToken and broadcastOnlineUsers.
UnregisterUnmaps(k) ==
  /\ calls[k].op = "unregister" /\ calls[k].pc = "written" /\ redisUp
  /\ LET c == calls[k].conn
         rg1 == IF calls[k].user = Null THEN registry
                ELSE [registry EXCEPT !.socketUser[c] = Null]
         b == broadcastOnlineUsers(cleanupSocketToken(rg1, redisUp, c), sockets, redisUp)
     IN /\ registry' = b.rg
        /\ outbox' = <<b.msg>>
  /\ calls' = [calls EXCEPT ![k] = Idle]
  /\ UNCHANGED <<sockets, cache, lapsed, renewed>> /\ PresenceStep

(***************************************************************************)
(* A socket that disconnects while another connects.                       *)
(***************************************************************************)
NextJoinLeave ==
  \/ \E c \in ConnIds, u \in UserIds : RegisterReads("b", c, u)
  \/ RegisterWrites("b")
  \/ RegisterMaps("b")
  \/ \E c \in ConnIds : UnregisterReads("a", c)
  \/ UnregisterWrites("a")
  \/ UnregisterUnmaps("a")

SpecJoinLeave == Init /\ [][NextJoinLeave]_vars

(***************************************************************************)
(* The whole server: every request of the slices above, and the reads of a *)
(* task's children.                                                        *)
(***************************************************************************)
Next ==
  \/ NextReparent
  \/ NextCache
  \/ NextHub
  \/ NextSprint
  \/ NextPresence
  \/ NextConn
  \/ NextSweep
  \/ NextPurge
  \/ NextPages
  \/ NextRefs
  \/ NextStranger
  \/ NextMove
  \/ NextTicks
  \/ NextListing
  \/ NextRace
  \/ NextSiblings
  \/ NextStatus
  \/ NextJoinLeave
  \/ \E c \in ConnIds, t \in TaskRefs, i \in PageIndexes, l \in PageLimits :
       HandleGetTaskChildrenByIndex(c, t, i, l, TRUE)

Spec == Init /\ [][Next]_vars

(***************************************************************************)
(* Properties.                                                             *)
(***************************************************************************)
\* The messages of out sent on event.
Sent(out, event) == {i \in DOMAIN out : out[i].event = event}

\* Whether the cache holds a page or the count of sprint s.
SprintCached(ch, s) ==
  s \in DOMAIN ch.count \/ \E k \in DOMAIN ch.page : k[1] = s

\* C1: for createTask, updateTask and deleteTask the sprint's cache is dropped
\* before the task:refresh of the mutation is emitted: whenever the gateway
\* has emitted a task:refresh with action created, updated or deleted for
\* sprint S, no tasks:sprint:S:* key written before the mutation exists.
\* Checked under SpecCache, where nothing is read between the emit and the
\* return of a mutation, so every key present then was written before it.
C1_InvalidatedBeforeRefresh ==
  \A i \in Sent(outbox, "task:refresh") :
    outbox[i].payload.action \in {"created", "updated", "deleted"}
      => ~SprintCached(cache, outbox[i].payload.sprintId)

\* What task:get_by_index answers when the page is computed from the Task
\* table alone.
StoragePage(tk, s, index, limit, isForward) ==
  LET all == ParentTaskIds(tk, s)
      res == PageResult(tk, all, index, limit, isForward, Len(all))
  IN [sprintId |-> s, tasks |-> res.tasks, pagination |-> Pagination(res, limit)]

\* C2: with one request at a time, a successful task:get_by_index for sprint S
\* answers with the rows and the total that storage holds at that moment,
\* whatever mutations of S's top-level tasks completed before it.
C2_ReadsSeeStorage ==
  [][\A s \in SprintIds, i \in PageIndexes, l \in PageLimits :
       (HandleGetTasksByIndex(1, s, i, l, TRUE) /\ outbox'[1].kind = "reply")
         => outbox'[1].payload =
              StoragePage(tasks, s, ParseIntOr(i, 0), ParseIntOr(l, DefaultLimit), TRUE)]_vars

\* C3: a task:set_status that names the task's current status writes nothing
\* to storage, emits no task:refresh, and is answered with updated = false.
C3_SameStatusIsSilent ==
  [][\A c \in ConnIds, id \in DOMAIN tasks :
       HandleSetTaskStatus(c, id, tasks[id].status)
         => /\ tasks' = tasks /\ sprints' = sprints
            /\ Sent(outbox', "task:refresh") = {}
            /\ \E i \in Sent(outbox', "task:set_status") :
                 outbox'[i].kind = "reply" /\ ~outbox'[i].payload.result.updated]_vars

\* C4: a task:get_by_index with limit 0, limit 101 or index -1 is answered
\* with an error and leaves the cache as it was.
C4_BadPageArgsRejected ==
  [][\A s \in SprintIds, i \in {0, -1}, l \in {0, 1, MaxLimit + 1} :
       ((i = -1 \/ l = 0 \/ l = MaxLimit + 1) /\ HandleGetTasksByIndex(1, s, i, l, TRUE))
         => (outbox'[1].kind = "error" /\ cache' = cache)]_vars

\* The tasks below p: its children, their children, and so on.  The parentId
\* column may hold a cycle, so the closure is built in at most as many rounds
\* as there are rows.
RECURSIVE Below(_, _, _)
Below(tk, S, n) ==
  LET T == S \cup {t \in DOMAIN tk : tk[t].parentId \in S}
  IN IF n = 0 \/ T = S THEN S ELSE Below(tk, T, n - 1)

Subtree(tk, p) == Below(tk, {t \in DOMAIN tk : tk[t].parentId = p}, Cardinality(DOMAIN tk))

\* The step in which deleteTask(p) removes its rows.
Deletes(p) ==
  /\ pending = NoPending /\ pending' # NoPending
  /\ pending'[1].op = "delete" /\ pending'[1].taskId = p

\* C5: deleteTask(P) removes P and every task of P's subtree, and leaves no
\* row whose parentId or sprintId names a row that does not exist.
C5_DeleteRemovesSubtree ==
  [][\A p \in DOMAIN tasks :
       Deletes(p)
         => /\ p \notin DOMAIN tasks'
            /\ Subtree(tasks, p) \cap DOMAIN tasks' = {}
            /\ \A t \in DOMAIN tasks' :
                 /\ tasks'[t].parentId \in DOMAIN tasks' \cup {Null}
                 /\ tasks'[t].sprintId \in DOMAIN sprints']_vars

\* C6: once a createTask or deleteTask has returned, a sprint's hasChildren
\* is true exactly when the sprint owns a task, and a task's hasChildren is
\* true exactly when the task has a child.
C6_HasChildrenExact ==
  pending = NoPending =>
    /\ \A s \in DOMAIN sprints : sprints[s].hasChildren <=> CountInSprint(tasks, s) > 0
    /\ \A t \in DOMAIN tasks : tasks[t].hasChildren <=> CountChildren(tasks, t) > 0

\* C7: the step in which createTask stores a task and goes on to succeed
\* emits task:refresh with action "created" and the new task's taskId and
\* sprintId to every open socket; and every successful task:create reply is
\* preceded, in the same request, by that task:refresh.
C7_CreateIsBroadcast ==
  /\ [][(nextTask' = nextTask + 1 /\ pending' # NoPending)
          => \E i \in Sent(outbox', "task:refresh") :
               /\ outbox'[i].kind = "broadcast" /\ outbox'[i].to = sockets
               /\ outbox'[i].payload =
                    [sprintId |-> tasks'[nextTask].sprintId, taskId |-> nextTask,
                     action |-> "created"]]_vars
  /\ [](\A j \in Sent(outbox, "task:create") :
          outbox[j].kind = "reply"
            => \E i \in 1..(j - 1) :
                 /\ outbox[i].event = "task:refresh" /\ outbox[i].kind = "broadcast"
                 /\ outbox[i].payload =
                      [sprintId |-> outbox[j].payload.result.sprintId,
                       taskId |-> outbox[j].payload.result.id, action |-> "created"])

\* C7 witness: a task:create answered with its result after a task:refresh
\* "created" went to the requester and to another open socket.
C7_Witness ==
  \E j \in Sent(outbox, "task:create") :
    /\ outbox[j].kind = "reply"
    /\ \E i \in Sent(outbox, "task:refresh") :
         /\ outbox[i].payload.action = "created"
         /\ outbox[i].payload.taskId = outbox[j].payload.result.id
         /\ outbox[j].to \subseteq outbox[i].to
         /\ Cardinality(outbox[i].to) >= 2

\* C8: a request answered with an error emits nothing to all sockets.
C8_ErrorMeansNoBroadcast ==
  (\E i \in DOMAIN outbox : outbox[i].kind = "error")
    => \A j \in DOMAIN outbox : outbox[j].kind # "broadcast"

\* Whether out holds a refresh on event, to every open socket, whose payload
\* names id in field and carries an action tag.
Refreshed(out, event, field, id) ==
  \E i \in Sent(out, event) :
    /\ out[i].kind = "broadcast" /\ out[i].to = sockets
    /\ out[i].payload[field] = id
    /\ "action" \in DOMAIN out[i].payload

\* The columns of a sprint that requests set.
SprintFields(sp, id) ==
  [name |-> sp[id].name, description |-> sp[id].description, status |-> sp[id].status]

\* C9: a step that creates, deletes or changes a sprint emits sprint:refresh
\* naming the sprint, and a step that creates, deletes or changes a task emits
\* task:refresh naming the task, to every open socket and with an action tag.
\* Checked under SpecSprint, where Redis is up and no request fails after
\* it has written.
C9_MutationsAreRefreshed ==
  [][/\ \A s \in SprintIds :
          \/ (s \in DOMAIN sprints) # (s \in DOMAIN sprints')
          \/ /\ s \in DOMAIN sprints /\ s \in DOMAIN sprints'
             /\ SprintFields(sprints, s) # SprintFields(sprints', s)
          => Refreshed(outbox', "sprint:refresh", "sprintId", s)
     /\ \A t \in TaskIds :
          \/ (t \in DOMAIN tasks) # (t \in DOMAIN tasks')
          \/ /\ t \in DOMAIN tasks /\ t \in DOMAIN tasks'
             /\ tasks[t] # tasks'[t]
          => Refreshed(outbox', "task:refresh", "taskId", t)]_vars

\* Whether out holds a reply to c on event with the result of the operation.
Replied(out, c, event) ==
  \E i \in Sent(out, event) : out[i].kind = "reply" /\ out[i].to = {c}

\* Whether out holds no error.
Succeeded(out) == \A i \in DOMAIN out : out[i].kind # "error"

\* C10: every mutation request that succeeds is answered to its requester
\* on the event of the request.
C10_MutationsAreAnswered ==
  [][\A c \in ConnIds :
       /\ (HandleCreateSprint(c, "s") /\ Succeeded(outbox'))
            => Replied(outbox', c, "sprint:create")
       /\ \A id \in SprintIds :
            /\ (HandleSetSprintStatus(c, id, "IN_PROGRESS") /\ Succeeded(outbox'))
                 => Replied(outbox', c, "sprint:set_status")
            /\ (HandleRequestDeleteSprint(c, id) /\ Succeeded(outbox'))
                 => Replied(outbox', c, "sprint:request_delete")
       /\ (HandleChangeSprintDescription(c, 1, "d") /\ Succeeded(outbox'))
            => Replied(outbox', c, "sprint:change_description")
       /\ (HandleChangeSprintName(c, 1, "n") /\ Succeeded(outbox'))
            => Replied(outbox', c, "sprint:change_name")
       /\ (ReturnCreateTask /\ pending[1].conn = c)
            => Replied(outbox', c, "task:create")
       /\ (HandleChangeTaskDescription(c, 1, "d") /\ Succeeded(outbox'))
            => Replied(outbox', c, "task:change_description")
       /\ (HandleChangeTaskName(c, 1, "n") /\ Succeeded(outbox'))
            => Replied(outbox', c, "task:change_name")
       /\ (HandleChangeTaskAssignee(c, 1, 1) /\ Succeeded(outbox'))
            => Replied(outbox', c, "task:change_assignee")]_vars

\* The ids the registry holds for socket c: the rows listing it, its reverse
\* mapping and its stored token.
Registered(rg, c) ==
  \/ \E u \in UserIds : c \in Range(rg.entry[u])
  \/ rg.socketUser[c] # Null
  \/ rg.socketToken[c] # Null

\* C11: a connection whose handshake carries no credential, or one that fails
\* verification, is closed: handleConnection sends it auth:token_expired when
\* the token has expired and auth:error otherwise, disconnects it, writes no
\* row, reverse mapping or token for it, adds no user to the online set, and
\* sends it neither 'connected' nor the sprint listing.
C11_FailedAuthIsClosed ==
  [][\A c \in {x \in ConnIds : Fresh(x)},
        h \in {x \in Handshakes : extractAuthenticatedUser(x).err # ""} :
       HandleConnection(c, h)
         => /\ c \notin sockets'
            /\ outbox'[1].to = {c}
            /\ outbox'[1].event =
                 (IF extractAuthenticatedUser(h).err = "TokenExpiredError"
                  THEN "auth:token_expired" ELSE "auth:error")
            /\ ~Registered(registry', c)
            /\ registry'.online \subseteq registry.online
            /\ \A i \in DOMAIN outbox' :
                 c \in outbox'[i].to => outbox'[i].event \in {"auth:error", "auth:token_expired"}]_vars

\* C11 witness: a handshake was refused with a notice while another socket,
\* open, was told the online users; the refused socket is not open and the
\* registry holds nothing of it.
C11_Witness ==
  /\ Len(outbox) = 2
  /\ outbox[1].event \in {"auth:error", "auth:token_expired"}
  /\ outbox[2].event = "user:online_users" /\ outbox[2].to # {}
  /\ \A c \in outbox[1].to : c \notin sockets /\ ~Registered(registry, c)

\* C12: the credential of a handshake is the token of the first place that
\* holds one, in the order handshake auth, Authorization header, jwt cookie,
\* query.  Whenever that token verifies, handleConnection keeps the socket
\* open and, Redis answering, registers it to the token's user.
C12_FirstPlaceAuthenticates ==
  [][\A c \in {x \in ConnIds : Fresh(x)},
        h \in {x \in Handshakes : VerifyError(getRequest(x)) = ""} :
       (redisUp /\ HandleConnection(c, h))
         => /\ c \in sockets'
            /\ registry'.socketUser[c] = getRequest(h).sub]_vars

\* Whether no id occurs twice in q.
NoDuplicates(q) == \A i, j \in DOMAIN q : q[i] = q[j] => i = j

Survivors(rg, open, u, c) ==
  LET stays(x) == x # c /\ validateSocketConnection(rg, open \ {c}, TRUE, x)
  IN SelectSeq(rg.entry[u], stays)

\* What C14 asks of the registry after, where socket c of user u was
\* unregistered from the registry rg.
Unregistered(rg, after, open, u, c) ==
  /\ after.socketUser[c] = Null
  /\ IF Survivors(rg, open, u, c) = <<>>
       THEN u \notin after.online /\ after.entry[u] = <<>>
     ELSE /\ after.entry[u] = Survivors(rg, open, u, c)
          /\ u \in after.online <=> u \in rg.online

\* C14: unregistering a socket whose reverse mapping names user u, Redis
\* answering, removes u from the online set and deletes u's row when no other
\* id of the row is valid, and otherwise leaves the row with exactly the
\* other valid ids, in their order.  This holds of removeOnlineUser in every
\* state reached, and of the registry after every handleDisconnect.
C14_UnregisterKeepsSurvivors ==
  /\ [](\A c \in ConnIds :
          (redisUp /\ registry.socketUser[c] # Null)
            => Unregistered(registry,
                            removeOnlineUser(registry, sockets \ {c}, redisUp, c),
                            sockets, registry.socketUser[c], c))
  /\ [][\A c \in sockets :
          (redisUp /\ registry.socketUser[c] # Null /\ HandleDisconnect(c))
            => Unregistered(registry, registry', sockets, registry.socketUser[c], c)]_vars

\* C14 witness: a handleDisconnect has told the one socket still open that
\* one user is online; that user's row holds that socket alone and the other
\* user is offline.
C14_Witness ==
  /\ Len(outbox) = 1 /\ outbox[1].event = "user:online_users"
  /\ outbox[1].kind = "broadcast" /\ Cardinality(outbox[1].to) = 1
  /\ outbox[1].payload.count = 1
  /\ \E u \in UserIds :
       /\ Len(registry.entry[u]) = 1 /\ Range(registry.entry[u]) = sockets
       /\ registry.online = {u}

\* User u is in the online set with a row none of whose sockets is open.
Ghost(u) ==
  /\ u \in registry.online /\ registry.entry[u] # <<>>
  /\ Range(registry.entry[u]) \cap sockets = {}

\* The ids of the rows getOnlineUsers returns.
Listed(rg, open, up) ==
  LET rows == getOnlineUsers(rg, open, up).rows
  IN {rows[i].id : i \in DOMAIN rows}

\* C15: a user whose sockets have all vanished without a disconnect is gone
\* from the online users after the next stale-socket sweep.  Every sweep
\* leaves no such user in the online set, and none in what getOnlineUsers
\* then returns; and, the sweep being run again and again, a user in that
\* state does not stay in it.
C15_SweepEvictsGhosts ==
  /\ [][CleanupStaleSocketIds
          => \A u \in UserIds :
               Ghost(u) => /\ u \notin registry'.online
                           /\ u \notin Listed(registry', sockets', redisUp')]_vars
  /\ \A u \in UserIds : Ghost(u) ~> ~Ghost(u)

\* C15 witness: a sweep has run, no socket is open and nobody is online, yet
\* a stored token remains of a socket that connected and vanished without a
\* disconnect.
C15_Witness ==
  /\ outbox = <<>> /\ sockets = {} /\ registry.online = {}
  /\ \E c \in ConnIds : registry.socketToken[c] # Null

\* C16: when socket c closes, Redis answering, handleDisconnect unregisters
\* it, deletes its reverse mapping and its stored token and then emits
\* user:online_users to the sockets still open; after it no row lists c and
\* no socket_user or socket_token key of c exists.
C16_ClosedLeavesNoKey ==
  [][\A c \in sockets :
       (redisUp /\ HandleDisconnect(c))
         => /\ ~Registered(registry', c)
            /\ outbox'[Len(outbox')].event = "user:online_users"
            /\ outbox'[Len(outbox')].to = sockets']_vars

\* Whether out holds an auth:token_expired sent to socket c.
Noticed(out, c) ==
  \E i \in Sent(out, "auth:token_expired") : out[i].to = {c}

\* C17: a token sweep, Redis answering, sends auth:token_expired to exactly
\* the open sockets whose stored token no longer verifies, and closes none;
\* the timeout armed for such a socket closes it only if its client has not
\* renewed the token since the notice, and a socket of a renewed client
\* stays open.
C17_ExpiredClosedUnlessRenewed ==
  [][/\ (redisUp /\ CheckAllTokensValidity)
          => /\ sockets' = sockets
             /\ \A c \in sockets :
                  Noticed(outbox', c)
                    <=> (registry.socketToken[c] # Null /\ c \in lapsed)
     /\ \A c \in timers :
          GraceTimerFires(c)
            => (c \in sockets' <=> (c \in sockets /\ c \in renewed))]_vars

\* What C18 asks of the report r of validateUserConnections for user u, made
\* on the registry rg with the sockets in open.
Reconciled(rg, open, u, r) ==
  /\ Range(r.valid) \cap Range(r.removed) = {}
  /\ Range(r.valid) \cup Range(r.removed) = Range(rg.entry[u])
  /\ Len(r.valid) + Len(r.removed) = Len(rg.entry[u])
  /\ \A c \in Range(rg.entry[u]) :
       c \in Range(r.valid) <=> (rg.socketUser[c] # Null /\ c \in open)
  /\ IF r.valid = <<>>
       THEN r.rg.entry[u] = <<>> /\ u \notin r.rg.online
     ELSE r.rg.entry[u] = r.valid /\ u \in r.rg.online

\* C18: validateUserConnections, Redis answering, splits the ids of the
\* user's row into valid and removed, an id being valid exactly when its
\* reverse mapping exists and its socket is open; the two lists are disjoint
\* and together hold the ids of the row; afterwards the row holds the valid
\* ids, or is deleted and the user removed from the online set when there is
\* none.  This holds in every state reached, and of every
\* user:validate_connections answered.
C18_ReconcilePartitions ==
  /\ [](redisUp
          => \A u \in UserIds :
               Reconciled(registry, sockets, u,
                          validateUserConnections(registry, sockets, redisUp, u)))
  /\ [][\A c \in sockets :
          (redisUp /\ registry.socketUser[c] # Null /\ HandleValidateConnections(c))
            => LET u == registry.socketUser[c]
                   p == outbox'[1].payload
               IN Reconciled(registry, sockets, u,
                             [valid |-> p.validConnections,
                              removed |-> p.removedConnections, rg |-> registry'])]_vars

\* C18 witness: a user:validate_connections was answered with one valid and
\* one removed socket, and the user's row now holds the valid one alone.
C18_Witness ==
  /\ Len(outbox) = 1 /\ outbox[1].event = "user:validation_result"
  /\ "removedConnections" \in DOMAIN outbox[1].payload
  /\ Len(outbox[1].payload.removedConnections) = 1
  /\ Len(outbox[1].payload.validConnections) = 1
  /\ registry.entry[outbox[1].payload.userId] = outbox[1].payload.validConnections

\* The users with a row at least one of whose ids is valid.
UsersWithValidSocket(rg, open) ==
  {u \in UserIds :
     \E c \in Range(rg.entry[u]) : validateSocketConnection(rg, open, TRUE, c)}

\* What C19 asks of the result b of getOnlineUsers made on the registry rg:
\* rows is the sequence returned, after the registry left behind.
ListedExactly(rg, open, rows, after) ==
  /\ \A u \in UsersWithValidSocket(rg, open) :
       Cardinality({i \in DOMAIN rows : rows[i].id = u}) = 1
  /\ \A i \in DOMAIN rows :
       /\ rows[i].id \in UsersWithValidSocket(rg, open)
       /\ rows[i].name = UserName(rows[i].id)
  /\ \A u \in UserIds \ UsersWithValidSocket(rg, open) :
       u \notin after.online /\ (u \in rg.online => after.entry[u] = <<>>)
  /\ after.online = UsersWithValidSocket(rg, open)

\* C19: getOnlineUsers, Redis answering, returns one {id, name} row for every
\* user of the online set with at least one valid socket and no row for any
\* other user, and the same call removes every user of the online set with
\* no valid socket from that set and deletes that user's row.  This holds in
\* every state reached, and of every user:request_online_users answered.
C19_ListOnlineIsExact ==
  /\ [](redisUp
          => LET b == getOnlineUsers(registry, sockets, redisUp)
             IN ListedExactly(registry, sockets, b.rows, b.rg))
  /\ [][\A c \in sockets :
          (redisUp /\ HandleRequestOnlineUsers(c))
            => ListedExactly(registry, sockets, outbox'[1].payload.users, registry')]_vars

\* C19 witness: a user:request_online_users was answered with one user while
\* the other user, whose only socket had vanished, has just been removed:
\* that user's stored token is still there.
C19_Witness ==
  /\ Len(outbox) = 1 /\ outbox[1].event = "user:online_users"
  /\ outbox[1].kind = "reply" /\ outbox[1].payload.count = 1
  /\ \E u \in UserIds, c \in ConnIds \ sockets :
       /\ registry.socketToken[c] = u
       /\ u \notin registry.online /\ registry.entry[u] = <<>>
       /\ outbox[1].payload.users[1].id # u

\* C20: a failure of Redis never makes a mutation fail: no sprint or task
\* request is answered with an error that carries the Redis failure.
C20_CacheFailureIsSwallowed ==
  \A i \in DOMAIN outbox :
    outbox[i].kind = "error" => outbox[i].payload.error # RedisError

\* C21: deleteSprint(S) deletes every task of S, then S, and leaves no cache
\* entry that depends on them: the sprint:get_all sent by the deletion lists
\* no sprint S, storage holds no task of S, and from then on no successful
\* task:get_by_index for S and no successful task:get_children_by_index
\* answers with a task.  Sprint ids are never reused, so a sprint that is
\* absent below the id counter is a deleted one.
C21_DeletedSprintLeavesNoTask ==
  /\ [][\A s \in SprintIds :
          (HandleRequestDeleteSprint(1, s) /\ outbox'[1].kind = "reply")
            => /\ s \notin DOMAIN sprints'
               /\ \A t \in DOMAIN tasks' : tasks'[t].sprintId # s
               /\ \A i \in DOMAIN outbox'[2].payload.sprints :
                    outbox'[2].payload.sprints[i].id # s]_vars
  /\ [][\A s \in SprintIds :
          (/\ s \notin DOMAIN sprints
           /\ HandleGetTasksByIndex(1, s, 0, 0, TRUE)
           /\ outbox'[1].kind = "reply")
            => outbox'[1].payload.tasks = <<>>]_vars
  /\ [][\A t \in 1..MaxFlat :
          (HandleGetTaskChildrenByIndex(1, t, 0, 0, TRUE) /\ outbox'[1].kind = "reply")
            => \A i \in DOMAIN outbox'[1].payload.children :
                 outbox'[1].payload.children[i].sprintId \in DOMAIN sprints]_vars

\* The ids of the rows of a page.
Ids(rows) == [i \in DOMAIN rows |-> rows[i].id]

\* The ids of the forward pages of sprint s requested at index i, i + limit,
\* ... up to total - 1, one request after the other.
RECURSIVE ForwardWalk(_, _, _, _, _, _)
ForwardWalk(tk, ch, s, limit, i, total) ==
  IF i > total - 1 THEN <<>>
  ELSE LET r == getAllTasksBySprintWithIndex(tk, ch, TRUE, s, i, limit, TRUE)
       IN Ids(r.val[1].tasks) \o ForwardWalk(tk, r.ch, s, limit, i + limit, total)

\* The ids of the backward pages of sprint s requested at index i, i - limit,
\* ... down to 0, the page requested last put first.
RECURSIVE BackwardWalk(_, _, _, _, _, _)
BackwardWalk(tk, ch, s, limit, i, total) ==
  IF i < 0 THEN <<>>
  ELSE LET r == getAllTasksBySprintWithIndex(tk, ch, TRUE, s, i, limit, FALSE)
       IN BackwardWalk(tk, r.ch, s, limit, i - limit, total) \o Ids(r.val[1].tasks)

\* The total that a page request for sprint s reports.
ReportedTotal(tk, ch, s) ==
  getAllTasksBySprintWithIndex(tk, ch, TRUE, s, 0, DefaultLimit, TRUE).val[1].total

\* C22: whenever the server is idle and the reads of sprint 1 report a total
\* of at least 1, the forward pages requested at 0, limit, 2*limit, ...
\* concatenated give the same id sequence as the backward pages requested
\* from total-1 downward in steps of limit with the order of the pages
\* reversed, and the sequence holds total ids, none twice.
C22_WalksAgree ==
  (redisUp /\ pending = NoPending) =>
    \A l \in WalkLimits :
      LET limit == l
          total == ReportedTotal(tasks, cache, 1)
          fwd == ForwardWalk(tasks, cache, 1, limit, 0, total)
          bwd == BackwardWalk(tasks, cache, 1, limit, total - 1, total)
      IN total >= 1 =>
           /\ fwd = bwd
           /\ Len(fwd) = total
           /\ \A i, j \in DOMAIN fwd : i # j => fwd[i] # fwd[j]

\* The messages of createTask's BadRequestException for a reference that
\* does not resolve.
InvalidReference ==
  {"Invalid sprintId: sprint not found", "Invalid parentId: parent task not found",
   "Invalid assignedTo: user not found"}

\* Whether a reference of a task:create payload resolves to no row.
Dangling(sp, tk, data) ==
  \/ data.sprintId \notin DOMAIN sp
  \/ data.parentId # Null /\ data.parentId \notin DOMAIN tk
  \/ data.assignedTo # Null /\ data.assignedTo \notin UserIds

\* C23: a task:create whose sprintId, parentId (if given) or assignedTo (if
\* given) resolves to no row is answered with one error naming the invalid
\* reference and changes nothing: no row is created, no hasChildren flag is
\* written, no cache key is deleted and no task.created event is emitted.
C23_DanglingCreateChangesNothing ==
  [][\A data \in {d \in RefTaskData : Dangling(sprints, tasks, d)} :
       HandleCreateTask(1, data)
         => /\ UNCHANGED <<sprints, tasks, cache, nextTask>>
            /\ pending' = NoPending
            /\ Len(outbox') = 1
            /\ outbox'[1].kind = "error" /\ outbox'[1].to = {1}
            /\ outbox'[1].payload.error \in InvalidReference]_vars

\* A create was refused for its assignee while tasks exist and pages and
\* counts of both listings are cached.
C23_Witness ==
  /\ Len(outbox) = 1 /\ outbox[1].event = "task:create"
  /\ outbox[1].kind = "error"
  /\ outbox[1].payload.error = "Invalid assignedTo: user not found"
  /\ \E t \in DOMAIN tasks : tasks[t].hasChildren
  /\ DOMAIN cache.page # {} /\ DOMAIN cache.cpage # {}

\* What a request for an unknown task must leave behind: storage, cache and
\* counters as they were, nothing pending, and no message but the error
\* "Task not found" to the requester (out is 0 for the REST call, which
\* answers over HTTP, and 1 for a socket request).
NotFoundOnly(out, event) ==
  /\ UNCHANGED <<sprints, tasks, cache, nextTask, nextSprint>>
  /\ pending' = NoPending
  /\ Len(outbox') = out
  /\ \A i \in DOMAIN outbox' :
       /\ outbox'[i].kind = "error" /\ outbox'[i].event = event
       /\ outbox'[i].to = {1}
       /\ outbox'[i].payload.error = "Task not found"

\* C24: updateTask, deleteTask, setTaskStatus, setTaskDescription and
\* setTaskTitle called with an id that names no stored task fail with "Task
\* not found" and leave storage, the cache and the emitted events unchanged:
\* the only message is the error to the requester.
C24_UnknownTaskChangesNothing ==
  [][\A id \in RefTaskIds \ DOMAIN tasks :
       /\ \A body \in {b \in RenameBody : b.id = id} :
            ControllerUpdate(body) => NotFoundOnly(0, "")
       /\ HandleRequestDeleteTask(1, id) => NotFoundOnly(1, "task:request_delete")
       /\ HandleSetTaskStatus(1, id, "IN_PROGRESS") => NotFoundOnly(1, "task:set_status")
       /\ HandleChangeTaskDescription(1, id, "d")
            => NotFoundOnly(1, "task:change_description")
       /\ HandleChangeTaskName(1, id, "n") => NotFoundOnly(1, "task:change_name")]_vars

\* A delete of an unknown task was refused while another task is stored and
\* pages of both listings are cached.
C24_Witness ==
  /\ Len(outbox) = 1 /\ outbox[1].event = "task:request_delete"
  /\ outbox[1].kind = "error" /\ outbox[1].payload.error = "Task not found"
  /\ tasks # <<>>
  /\ DOMAIN cache.page # {} /\ DOMAIN cache.cpage # {}

\* The users the table does not hold.
Strangers == UserRefs \ UserIds

\* C25: the hub creates no user on authentication.  A handshake whose token
\* verifies but names a user the table does not hold is answered with
\* auth:error and closed; no presence row, reverse mapping or token is stored
\* for the socket, no user joins the online set, and the sprints, the tasks
\* and their counters stay as they were.
C25_StrangerIsTurnedAway ==
  [][\A c \in {x \in ConnIds : Fresh(x)}, u \in Strangers :
       HandleConnection(c, CookieOnly(GoodToken(u)))
         => /\ c \notin sockets'
            /\ outbox'[1] = ToSocket(c, "auth:error", [message |-> "Authentication failed"])
            /\ \A i \in DOMAIN outbox' :
                 c \in outbox'[i].to => outbox'[i].event = "auth:error"
            /\ ~Registered(registry', c)
            /\ registry'.online \subseteq registry.online
            /\ UNCHANGED <<sprints, tasks, nextSprint, nextTask, cache>>]_vars

\* A stranger's socket was turned away while a user is online and a sprint
\* is stored.
C25_Witness ==
  /\ redisUp
  /\ Len(outbox) = 2 /\ outbox[1].event = "auth:error"
  /\ outbox[2].event = "user:online_users" /\ outbox[2].payload.count > 0
  /\ \A c \in outbox[1].to : c \notin sockets /\ ~Registered(registry, c)
  /\ sprints # <<>>

\* The messages of out that greet a new connection: 'connected' and the
\* sprint listing emitted to one client (the listing that follows a sprint
\* mutation is a broadcast).
Greetings(out) ==
  {i \in DOMAIN out :
     \/ out[i].event = "connected"
     \/ out[i].event = "sprint:get_all" /\ out[i].kind = "reply"}

\* C26: a connection is registered and announced before it is greeted, and
\* it alone is greeted.  With Redis answering, handleConnection of a socket
\* whose token verifies leaves the socket open and registered to its user,
\* and emits, in this order, the presence broadcast (to every open socket,
\* the new one included, and listing its user), 'connected' and the sprint
\* listing; and in every step of the server, 'connected' and the on-connect
\* listing go to one socket only, one that was not open before the step.
C26_RegisteredThenGreetedAlone ==
  /\ [][\A c \in {x \in ConnIds : Fresh(x)}, u \in UserIds :
          (redisUp /\ HandleConnection(c, CookieOnly(GoodToken(u))))
            => /\ c \in sockets'
               /\ registry'.socketUser[c] = u
               /\ c \in Range(registry'.entry[u]) /\ u \in registry'.online
               /\ Len(outbox') = 3
               /\ outbox'[1].event = "user:online_users"
               /\ outbox'[1].to = sockets'
               /\ \E i \in DOMAIN outbox'[1].payload.users :
                    outbox'[1].payload.users[i].id = u
               /\ outbox'[2].event = "connected"
               /\ outbox'[3].event = "sprint:get_all"]_vars
  /\ [][\A i \in Greetings(outbox') :
          outbox' # outbox
            => \E c \in ConnIds \ sockets : outbox'[i].to = {c}]_vars

\* A second socket was registered, announced to both sockets and then
\* greeted alone with a listing that holds a sprint.
C26_Witness ==
  /\ Cardinality(sockets) = 2
  /\ Len(outbox) = 3
  /\ outbox[1].event = "user:online_users" /\ outbox[1].to = sockets
  /\ outbox[2].event = "connected"
  /\ outbox[3].event = "sprint:get_all" /\ Len(outbox[3].payload.sprints) = 1
  /\ \E c \in sockets : outbox[2].to = {c} /\ outbox[3].to = {c}

\* What a page of rows with pagination p, requested with limit, must satisfy.
WindowHolds(rows, p, limit) ==
  IF p.total = 0
    THEN rows = <<>> /\ ~p.hasNext /\ ~p.hasPrev
  ELSE /\ 0 <= p.startIndex /\ p.startIndex <= p.endIndex
       /\ p.endIndex <= p.total - 1
       /\ Len(rows) = p.endIndex - p.startIndex + 1
       /\ Len(rows) <= limit
       /\ p.hasNext <=> p.endIndex < p.total - 1
       /\ p.hasPrev <=> p.startIndex > 0

\* C27: every successful task:get_by_index with index >= 0 and limit in
\* [1, 100], in either direction, answers a window with 0 <= startIndex <=
\* endIndex <= total-1 that holds endIndex-startIndex+1 rows, at most limit,
\* with hasNext iff endIndex < total-1 and hasPrev iff startIndex > 0; when
\* total is 0 the page is empty and both flags are false.
C27_WindowInvariants ==
  [][\A i \in WalkIndexes, l \in WalkLimits, d \in BOOLEAN :
       (HandleGetTasksByIndex(1, 1, i, l, d) /\ outbox'[1].kind = "reply")
         => WindowHolds(outbox'[1].payload.tasks, outbox'[1].payload.pagination, l)]_vars

\* What task:get_by_index for sprint s would answer now.
PageNow(s, index, limit, isForward) ==
  getAllTasksBySprintWithIndex(tasks, cache, TRUE, s, index, limit, isForward).val[1]

\* C28: direction selects the window and nothing else.  Whenever the server
\* is idle, for every index i and limit L with i+L-1 <= total-1, the forward
\* page of sprint 1 at index i and its backward page at index i+L-1 hold the
\* same rows in the same order and report the same startIndex and endIndex.
C28_DirectionKeepsRows ==
  (redisUp /\ pending = NoPending) =>
    \A i \in WalkIndexes, l \in WalkLimits :
      LET fwd == PageNow(1, i, l, TRUE)
          bwd == PageNow(1, i + l - 1, l, FALSE)
      IN i + l - 1 <= fwd.total - 1 =>
           /\ fwd.tasks = bwd.tasks
           /\ fwd.startIndex = bwd.startIndex
           /\ fwd.endIndex = bwd.endIndex

\* The ids deleteTask(id) deletes, in the order of its task.delete calls: the
\* rows deleteTaskChildrenRecursively deletes when the task's flag is set,
\* then the task itself.
DeletionLog(tk, id) ==
  (IF tk[id].hasChildren
     THEN deleteTaskChildrenRecursively(tk, id, Cardinality(DOMAIN tk) + 1).log
     ELSE <<>>) \o <<id>>

\* The table after the first n deletions of log.
RECURSIVE AfterDeletions(_, _, _)
AfterDeletions(tk, log, n) ==
  IF n = 0 THEN tk ELSE TaskDeleteRow(AfterDeletions(tk, log, n - 1), log[n])

\* C29: deleteTask of a task with descendants deletes in post-order.  Each
\* row is deleted when no stored row names it as parent, the task of the
\* request is deleted last, and after each deletion every stored task's
\* parentId is null or names a stored row.
C29_DeletesInPostOrder ==
  [][\A id \in {t \in DOMAIN tasks : CountChildren(tasks, t) > 0} :
       (HandleRequestDeleteTask(1, id) \/ ControllerDelete(id))
         => LET log == DeletionLog(tasks, id)
            IN /\ log[Len(log)] = id
               /\ \A n \in 1..Len(log) :
                    LET before == AfterDeletions(tasks, log, n - 1)
                        after == AfterDeletions(tasks, log, n)
                    IN /\ CountChildren(before, log[n]) = 0
                       /\ \A t \in DOMAIN after :
                            after[t].parentId \in DOMAIN after \cup {Null}]_vars

\* The single-field mutations of task id that have completed in this step:
\* the four socket requests, and the return of a PATCH /task/update.
Mutated(id) ==
  \/ /\ tasks' # tasks
     /\ \/ HandleSetTaskStatus(1, id, "IN_PROGRESS")
        \/ HandleChangeTaskDescription(1, id, "d")
        \/ HandleChangeTaskName(1, id, "n")
        \/ HandleChangeTaskAssignee(1, id, 1)
  \/ /\ pending # NoPending /\ pending[1].op = "update" /\ pending[1].taskId = id
     /\ ReturnUpdateTask

\* C30: once a mutation of a task T with parent P has completed
\* (task:set_status, task:change_description, task:change_name,
\* task:change_assignee or updateTask), task:get_children_by_index for P
\* answers with P's children as storage holds them, not with a page cached
\* before the mutation.
C30_ChildMutationRefreshesParent ==
  [][\A id \in {t \in RefTaskIds \cap DOMAIN tasks : tasks[t].parentId \in DOMAIN tasks} :
       (redisUp /\ Mutated(id))
         => LET P == tasks[id].parentId
                r == getTaskChildrenWithIndex(tasks', cache', TRUE, P, 0,
                                              DefaultLimit, TRUE)
            IN r.val[1].tasks = TaskRows(tasks', ChildTaskIds(tasks', P))]_vars

\* Whether the cache holds a page or the count of the children of task t.
ChildrenCached(ch, t) ==
  t \in DOMAIN ch.ccount \/ \E k \in DOMAIN ch.cpage : k[1] = t

\* The cache as updateTask leaves it when it returns, for a call whose write
\* has just been made in this step.
CacheAfterUpdate(id) == updateTaskReturn(cache', redisUp, tasks'[id].sprintId)

\* C31: once updateTask has moved a task from sprint S1 to sprint S2, no page
\* and no count of S1 or of S2 is left in the cache; once it has moved a task
\* from parent P1 to parent P2, no page and no count of the children of P1
\* or of P2 is left: a later read of either owner is computed from storage.
C31_MoveInvalidatesBothOwners ==
  [][\A body \in {b \in MoveSecond : b.id \in DOMAIN tasks} :
       (ControllerUpdate(body) /\ pending' # NoPending)
         => LET old == tasks[body.id]
                new == tasks'[body.id]
                left == CacheAfterUpdate(body.id)
            IN /\ old.sprintId # new.sprintId
                    => ~SprintCached(left, old.sprintId) /\ ~SprintCached(left, new.sprintId)
               /\ old.parentId # new.parentId
                    => \A p \in {old.parentId, new.parentId} \ {Null} :
                         ~ChildrenCached(left, p)]_vars

\* The ids of user u's socketIds that are valid: their reverse mapping exists
\* and the transport holds them.
ValidIds(rg, open, u) ==
  LET valid(x) == rg.socketUser[x] # Null /\ x \in open
  IN SelectSeq(rg.entry[u], valid)

\* C32: registering reconciles before it adds.  With Redis answering, when
\* handleConnection has registered a new socket c to user u, the user's
\* socketIds are the ids stored before that were valid at the call, in their
\* order, followed by c: every id stored afterwards is an open socket.
C32_RegisterReconciles ==
  [][\A c \in {x \in ConnIds : Fresh(x)}, u \in UserIds :
       (redisUp /\ HandleConnection(c, CookieOnly(GoodToken(u))))
         => /\ registry'.entry[u] = Append(ValidIds(registry, sockets, u), c)
            /\ Range(registry'.entry[u]) \subseteq sockets']_vars

\* The second socket has just been registered to the first user, whose first
\* socket left without a disconnect: its token is still stored, its id is
\* not among the user's socketIds.
C32_Witness ==
  /\ Len(outbox) = 3 /\ outbox[2].event = "connected" /\ outbox[2].to = {2}
  /\ registry.entry[1] = <<2>>
  /\ 1 \notin sockets /\ registry.socketToken[1] = 1
\* Socket c's stored token has expired and no token sweep has yet met it.
Overdue(c) == registry.socketToken[c] # Null /\ c \in lapsed

\* C33: an error met inside a run of the stale-socket sweep or of the token
\* sweep is caught and does not stop the schedule.  A run made while Redis
\* does not answer closes no socket, writes no key, arms no timeout and
\* sends nothing; both sweeps can run in every state, after such a run as
\* before it; and the later runs do their work: once Redis answers again
\* for good, a user whose sockets have all vanished does not stay in the
\* online set and an expired token does not stay stored.
C33_SweepErrorsAreCaught ==
  /\ [][(~redisUp /\ (CleanupStaleSocketIds \/ CheckAllTokensValidity))
          => /\ sockets' = sockets /\ registry' = registry
             /\ timers' = timers /\ outbox' = <<>>]_vars
  /\ [](ENABLED CleanupStaleSocketIds /\ ENABLED CheckAllTokensValidity)
  /\ (<>[]redisUp) => /\ \A u \in UserIds : Ghost(u) ~> ~Ghost(u)
                      /\ \A c \in ConnIds : Overdue(c) ~> ~Overdue(c)

\* C33 witness: a sweep has just run with Redis not answering while a socket
\* is open, a user whose socket vanished is still online and an expired
\* token is still stored.
C33_Witness ==
  /\ ~redisUp /\ outbox = <<>> /\ sockets # {}
  /\ \E u \in UserIds : Ghost(u)
  /\ \E c \in ConnIds : Overdue(c)
\* What getAll returns from the state after the step, Redis answering.
ListingAfter == SprintGetAll(sprints', cache', TRUE).val

AtRest == pending = NoPending /\ calls = NoCalls

\* Every tasks:sprint:s:* key holds what a read of storage would give now.
SprintCacheCurrent(s) ==
  /\ s \in DOMAIN cache.count => cache.count[s] = Len(ParentTaskIds(tasks, s))
  /\ \A k \in DOMAIN cache.page :
       k[1] = s => cache.page[k] = PageResult(tasks, ParentTaskIds(tasks, s),
                                              k[2], k[3], k[4],
                                              Len(ParentTaskIds(tasks, s)))

\* C35: however a paginated read and a task mutation of the same sprint
\* interleave, once both have completed no cache entry of the sprint holds
\* rows or a count read from storage before the mutation: with no request
\* running, every cached count and page of a sprint equals what storage
\* holds.
C35_NoStaleEntryAtRest ==
  AtRest => \A s \in SprintIds : SprintCacheCurrent(s)
\* hasChildren of every stored task and sprint says whether it has a child.
FlagsExact ==
  /\ \A t \in DOMAIN tasks : tasks[t].hasChildren <=> CountChildren(tasks, t) > 0
  /\ \A s \in DOMAIN sprints : sprints[s].hasChildren <=> CountInSprint(tasks, s) > 0

\* C36: however the steps of concurrent createTask and deleteTask calls on
\* the same parent or sprint interleave, once all of them have completed
\* hasChildren of the parent and of the sprint is true exactly when it has
\* a child: a child created while its sibling is being deleted is not left
\* under a parent, or in a sprint, whose hasChildren is false.
C36_FlagsExactAtRest == AtRest => FlagsExact
\* The messages of the outbox that are a task:refresh of a status change.
StatusRefreshes ==
  {i \in Sent(outbox, "task:refresh") : outbox[i].payload.action = "status_updated"}

\* C40: when two task:set_status requests for the same task with different
\* statuses are handled concurrently, after both have completed the
\* new_status of the last task:refresh broadcast for that task equals the
\* status stored for the task.  With no call running, the refresh the last
\* returning request has just sent carries the stored status.
C40_LastRefreshIsStored ==
  AtRest => \A i \in StatusRefreshes :
              outbox[i].payload.taskId \in DOMAIN tasks
                => outbox[i].payload.new_status = tasks[outbox[i].payload.taskId].status
\* The presence state is consistent: the online set holds exactly the users
\* with a row, and every open socket whose registration has completed is in
\* the row of its user.
PresenceConsistent ==
  /\ \A u \in UserIds : u \in registry.online <=> registry.entry[u] # <<>>
  /\ \A c \in sockets :
       registry.socketUser[c] # Null
         => c \in Range(registry.entry[registry.socketUser[c]])

\* C37: however a registration and an unregistration of the same user on
\* different connection ids interleave, once both have completed the user is
\* in the online set exactly when a row exists for them, and every open
\* connection that was registered is in that row.
C37_PresenceConsistentAtRest == AtRest => PresenceConsistent
\* The users of the open sockets that registered: socket_token:<c> is written
\* at the handshake with the user's id and deleted by handleDisconnect and
\* by the token sweep only.
OpenAndRegistered == {c \in sockets : registry.socketToken[c] # Null}

\* C38: a registered connection that stays open and is never unregistered
\* keeps its user in the online users for as long as it stays open, through
\* the expiry of the one-hour TTLs and the runs of the sweeps.  Redis
\* answering, the user of every open registered socket is among the users
\* getOnlineUsers returns.
C38_OpenSocketStaysListed ==
  redisUp => \A c \in OpenAndRegistered :
               registry.socketToken[c] \in Listed(registry, sockets, redisUp)
\* hasChildren of task p and of sprint s, as stored after the step, say
\* whether the owner has a child then.  No parent is an owner without a flag.
ParentFlagExact(p) ==
  p \in DOMAIN tasks' => (tasks'[p].hasChildren <=> CountChildren(tasks', p) > 0)

SprintFlagExact(s) ==
  s \in DOMAIN sprints' => (sprints'[s].hasChildren <=> CountInSprint(tasks', s) > 0)

\* C39: after updateTask has changed a task's parentId or sprintId,
\* hasChildren of the old parent, the new parent, the old sprint and the new
\* sprint each say whether that owner has a child: the owner that lost its
\* last child has hasChildren false, the owner that gained one has it true.
C39_MoveKeepsFlagsExact ==
  [][\A body \in {b \in MoveSecond : b.id \in DOMAIN tasks} :
       (/\ ControllerUpdate(body) /\ pending' # NoPending
        /\ \/ tasks'[body.id].parentId # tasks[body.id].parentId
           \/ tasks'[body.id].sprintId # tasks[body.id].sprintId)
         => /\ ParentFlagExact(tasks[body.id].parentId)
            /\ ParentFlagExact(tasks'[body.id].parentId)
            /\ SprintFlagExact(tasks[body.id].sprintId)
            /\ SprintFlagExact(tasks'[body.id].sprintId)]_vars

=============================================================================
